---- MODULE Spec2Model ----
(***************************************************************************)
(* Hospital appointment allocation core (allocation_system), the ledger    *)
(* of money_management and the wards of ward_allocation.                   *)
(*                                                                         *)
(* State: HospitalDataManager._appointments and ._appointment_counter.     *)
(* Operations: AutomatedBookingTool.execute (reserve) and                  *)
(* SmartCancellationTool.execute (cancel), once as whole handlers run one  *)
(* at a time (Spec) and once split at every acquisition of the store lock  *)
(* and run by several threads (SpecConc).                                  *)
(*                                                                         *)
(* Representation.  A Python str that the code inspects character by       *)
(* character (ids, patient ids, specialties) is a sequence of one-         *)
(* character strings; None and "" are both the empty sequence, which is    *)
(* what the code's truthiness tests see.  A date "YYYY-MM-DD" is the tuple *)
(* <<y, m, d>> and a time "HH:MM" the tuple <<h, m>>; a missing date or    *)
(* time is <<>>.  doctor_id is only ever compared for equality and used as *)
(* a dict key, so it stays a TLA+ string ("" for None).                    *)
(***************************************************************************)
EXTENDS Integers, Sequences, FiniteSets, TLC

VARIABLES
    appointments,         \* HospitalDataManager._appointments
    appointment_counter,  \* HospitalDataManager._appointment_counter
    last,                 \* the last call served one at a time: op, req, res
    pc,                   \* per thread: position inside the running call
    frame,                \* per thread: the locals of the running call
    budgets,              \* FinanceDB.budgets
    accounts,             \* FinanceDB.accounts
    payments,             \* FinanceDB.payments
    transactions,         \* FinanceDB.transactions
    wards,                \* HospitalDB.wards of ward_allocation: the beds' patients
    inventory,            \* InventoryDBTool._inventory of hospital_inventory
    lock,                 \* HospitalDataManager._lock: the thread that holds it, 0 for none
    calls                 \* per thread: the calls it has started in SpecLock

vars == <<appointments, appointment_counter, last, pc, frame,
          budgets, accounts, payments, transactions, wards, inventory, lock, calls>>

\* the state of the appointment store
hospital_db == <<appointments, appointment_counter>>

\* the state of the finance store
finance_db == <<budgets, accounts, payments, transactions>>

-----------------------------------------------------------------------------
(* Bounds *)

\* cap on the number of appointments ever appended in Spec
MaxAppts == 4

\* cap on the number of appointments ever appended in SpecFill
MaxFill == 6

\* cap on the number of appointments ever appended in SpecSmith
MaxSmith == 3

\* number of threads calling the tools concurrently in SpecConc and SpecBudget
NumThreads == 2

\* cap on the number of appointments ever appended in SpecKeywords
MaxKeywordAppts == 2

\* cap on the payments and transactions ever recorded in SpecLedger
MaxLedger == 3

\* cap on the usages ever recorded in SpecInventory
MaxUsage == 2

\* cap on the calls a thread starts in SpecLock
MaxLockCalls == 1

\* cap on the BudgetTool calls one thread makes in SpecBudget
MaxBudgetCalls == 2

\* cap on the expenses recorded in SpecBudget
MaxExpenses == 1

\* cap on appended appointments in SpecConc
MaxConcAppts == 3

\* cap on the payment queries one thread makes in SpecPay
MaxPayCalls == 2

\* cap on the number of appointments ever appended in SpecViews
MaxViews == 12

-----------------------------------------------------------------------------
(* Strings as character sequences *)

Range(s) == {s[i] : i \in 1..Len(s)}

UpperLetters ==
    <<"A","B","C","D","E","F","G","H","I","J","K","L","M",
      "N","O","P","Q","R","S","T","U","V","W","X","Y","Z">>

LowerLetters ==
    <<"a","b","c","d","e","f","g","h","i","j","k","l","m",
      "n","o","p","q","r","s","t","u","v","w","x","y","z">>

\* the case mappings of the letters, as tables
UpperOf == [c \in Range(LowerLetters) |->
               UpperLetters[CHOOSE i \in 1..Len(LowerLetters) : LowerLetters[i] = c]]

LowerOf == [c \in Range(UpperLetters) |->
               LowerLetters[CHOOSE i \in 1..Len(UpperLetters) : UpperLetters[i] = c]]

\* str.upper()
StrUpper(s) ==
    [i \in 1..Len(s) |-> IF s[i] \in DOMAIN UpperOf THEN UpperOf[s[i]] ELSE s[i]]

\* str.lower()
StrLower(s) ==
    [i \in 1..Len(s) |-> IF s[i] \in DOMAIN LowerOf THEN LowerOf[s[i]] ELSE s[i]]

\* sub in s
StrContains(sub, s) ==
    \E i \in 0..(Len(s) - Len(sub)) : SubSeq(s, i + 1, i + Len(sub)) = sub

\* x in list
InList(x, s) == \E i \in 1..Len(s) : s[i] = x

\* a local variable: Body of the value v, v evaluated once
With(v, Body(_)) == CHOOSE r \in {Body(x) : x \in {v}} : TRUE

-----------------------------------------------------------------------------
(* AppointmentStatus *)

SCHEDULED == "scheduled"
CANCELLED == "cancelled"
COMPLETED == "completed"

-----------------------------------------------------------------------------
(* Doctors: HospitalDataManager._doctors, in dict insertion order *)

JuneDays == << <<2025,6,3>>, <<2025,6,4>>, <<2025,6,5>>,
               <<2025,6,6>>, <<2025,6,7>>, <<2025,6,8>> >>

DoctorOrder == <<"dr_smith", "dr_jones", "dr_wilson", "dr_brown">>

Doctors ==
    [d \in Range(DoctorOrder) |->
        CASE d = "dr_smith" ->
               [id |-> "dr_smith",
                name |-> "Dr. Smith",
                specialty |-> <<"C","a","r","d","i","o","l","o","g","y">>,
                available_days |-> JuneDays,
                available_hours |-> << <<9,0>>, <<10,0>>, <<11,0>>, <<14,0>>, <<15,0>> >>]
          [] d = "dr_jones" ->
               [id |-> "dr_jones",
                name |-> "Dr. Jones",
                specialty |-> <<"O","r","t","h","o","p","e","d","i","c","s">>,
                available_days |-> JuneDays,
                available_hours |-> << <<14,0>>, <<15,0>>, <<16,0>>, <<17,0>> >>]
          [] d = "dr_wilson" ->
               [id |-> "dr_wilson",
                name |-> "Dr. Wilson",
                specialty |-> <<"G","e","n","e","r","a","l"," ","M","e","d","i","c","i","n","e">>,
                available_days |-> JuneDays,
                available_hours |-> << <<8,0>>, <<9,0>>, <<10,0>>, <<11,0>>, <<14,0>>, <<15,0>> >>]
          [] d = "dr_brown" ->
               [id |-> "dr_brown",
                name |-> "Dr. Brown",
                specialty |-> <<"N","e","u","r","o","l","o","g","y">>,
                available_days |-> JuneDays,
                available_hours |-> << <<9,0>>, <<10,0>>, <<11,0>>, <<13,0>>, <<14,0>> >>]]

-----------------------------------------------------------------------------
(* Dates and times *)

IsLeap(y) == (y % 4 = 0 /\ y % 100 # 0) \/ y % 400 = 0

DaysInMonth(y, m) ==
    IF m = 2 THEN (IF IsLeap(y) THEN 29 ELSE 28)
    ELSE IF m \in {4, 6, 9, 11} THEN 30 ELSE 31

NextDay(date) ==
    IF date[3] < DaysInMonth(date[1], date[2]) THEN <<date[1], date[2], date[3] + 1>>
    ELSE IF date[2] < 12 THEN <<date[1], date[2] + 1, 1>>
    ELSE <<date[1] + 1, 1, 1>>

\* (date + timedelta(days=k)).strftime("%Y-%m-%d")
RECURSIVE AddDays(_, _)
AddDays(date, k) ==
    IF k = 0 THEN date ELSE With(NextDay(date), LAMBDA next : AddDays(next, k - 1))

\* _time_to_minutes: hours * 60 + minutes of "HH:MM"; 0 when it does not parse
TimeToMinutes(time_str) ==
    IF Len(time_str) = 2 THEN time_str[1] * 60 + time_str[2] ELSE 0

Abs(n) == IF n < 0 THEN 0 - n ELSE n

-----------------------------------------------------------------------------
(* Appointment ids: f"APT{counter:04d}" *)

DigitChars == <<"0","1","2","3","4","5","6","7","8","9">>

RECURSIVE Decimal(_)
Decimal(n) ==
    IF n < 10 THEN <<DigitChars[n + 1]>>
    ELSE Decimal(n \div 10) \o <<DigitChars[(n % 10) + 1]>>

RECURSIVE ZeroPad(_, _)
ZeroPad(s, width) == IF Len(s) >= width THEN s ELSE ZeroPad(<<"0">> \o s, width)

FormatId(n) == <<"A","P","T">> \o ZeroPad(Decimal(n), 4)

-----------------------------------------------------------------------------
(* HospitalDataManager: the store methods, each run under self._lock *)

\* add_appointment that puts the new appointment in the place of a cancelled
\* record of the same slot instead of appending it
AddAppointmentOverCancelled(appts, counter, appointment) ==
    LET Stale(i) == /\ appts[i].status = CANCELLED
                    /\ appts[i].doctor_id = appointment.doctor_id
                    /\ appts[i].date = appointment.date
                    /\ appts[i].time = appointment.time
    IN IF \E i \in 1..Len(appts) : Stale(i)
       THEN [appointments |-> [appts EXCEPT ![CHOOSE i \in 1..Len(appts) : Stale(i)].status
                                               = SCHEDULED],
             counter      |-> counter,
             id           |-> appts[CHOOSE i \in 1..Len(appts) : Stale(i)].id]
       ELSE [appointments |-> Append(appts, [appointment EXCEPT !.id = FormatId(counter)]),
             counter      |-> counter + 1,
             id           |-> FormatId(counter)]

\* add_appointment that forgets to advance the counter
AddAppointmentNoAdvance(appts, counter, appointment) ==
    [appointments |-> Append(appts, [appointment EXCEPT !.id = FormatId(counter)]),
     counter      |-> counter,
     id           |-> FormatId(counter)]

\* add_appointment: stamp the id from the counter, append, advance the counter
AddAppointment(appts, counter, appointment) ==
    [appointments |-> Append(appts, [appointment EXCEPT !.id = FormatId(counter)]),
     counter      |-> counter + 1,
     id           |-> FormatId(counter)]

\* a status update that drops the record from the list instead
UpdateAppointmentStatusRemoving(appts, appointment_id, status) ==
    IF \E i \in 1..Len(appts) : appts[i].id = appointment_id
    THEN LET Others(apt) == apt.id # appointment_id
         IN [appointments |-> SelectSeq(appts, Others), success |-> TRUE]
    ELSE [appointments |-> appts, success |-> FALSE]

\* update_appointment_status: the first record with that id gets the status
UpdateAppointmentStatus(appts, appointment_id, status) ==
    IF \E i \in 1..Len(appts) : appts[i].id = appointment_id
    THEN LET k == CHOOSE i \in 1..Len(appts) :
                    /\ appts[i].id = appointment_id
                    /\ \A j \in 1..(i - 1) : appts[j].id # appointment_id
         IN [appointments |-> [appts EXCEPT ![k].status = status], success |-> TRUE]
    ELSE [appointments |-> appts, success |-> FALSE]

-----------------------------------------------------------------------------
(* AutomatedBookingTool *)

\* booked times that forget the status test: cancelled appointments block too
BookedTimesAnyStatus(appts, doctor_id, date) ==
    LET Held(apt) == /\ apt.doctor_id = doctor_id
                     /\ apt.date = date
        held == SelectSeq(appts, Held)
    IN [i \in 1..Len(held) |-> held[i].time]

\* [apt.time for apt in appointments if apt.doctor_id == doctor_id
\*      and apt.date == date and apt.status == SCHEDULED]
BookedTimes(appts, doctor_id, date) ==
    LET Held(apt) == /\ apt.doctor_id = doctor_id
                     /\ apt.date = date
                     /\ apt.status = SCHEDULED
        held == SelectSeq(appts, Held)
    IN [i \in 1..Len(held) |-> held[i].time]

\* [t for t in doctor.available_hours if t not in booked_times]
AvailableTimes(appts, doctor_id, date) ==
    LET booked == BookedTimes(appts, doctor_id, date)
        Free(t) == ~InList(t, booked)
    IN SelectSeq(Doctors[doctor_id].available_hours, Free)

\* closest time that looks at the times after the requested one first
ClosestTimeNotEarlier(available_times, time) ==
    LET later == SelectSeq(available_times,
                           LAMBDA t : TimeToMinutes(t) >= TimeToMinutes(time))
        from == IF later = <<>> THEN available_times ELSE later
        Key(t) == Abs(TimeToMinutes(t) - TimeToMinutes(time))
        k == CHOOSE i \in 1..Len(from) :
                /\ \A j \in 1..Len(from) : Key(from[j]) >= Key(from[i])
                /\ \A j \in 1..(i - 1) : Key(from[j]) > Key(from[i])
    IN from[k]

\* closest time that resolves equal distances to the last candidate
ClosestTimeLastOfTies(available_times, time) ==
    LET Key(t) == Abs(TimeToMinutes(t) - TimeToMinutes(time))
        k == CHOOSE i \in 1..Len(available_times) :
                /\ \A j \in 1..Len(available_times) :
                      Key(available_times[j]) >= Key(available_times[i])
                /\ \A j \in (i + 1)..Len(available_times) :
                      Key(available_times[j]) > Key(available_times[i])
    IN available_times[k]

\* min(available_times, key=lambda t: abs(_time_to_minutes(t) - original_minutes)):
\* the first element of the list with the smallest key
ClosestTime(available_times, time) ==
    LET Key(t) == Abs(TimeToMinutes(t) - TimeToMinutes(time))
        k == CHOOSE i \in 1..Len(available_times) :
                /\ \A j \in 1..Len(available_times) :
                      Key(available_times[j]) >= Key(available_times[i])
                /\ \A j \in 1..(i - 1) :
                      Key(available_times[j]) > Key(available_times[i])
    IN available_times[k]

\* the loop without its test "check_date in doctor.available_days"
ForwardDayAnyDay(appts, doctor_id, date) ==
    LET Hit(k) == AvailableTimes(appts, doctor_id, AddDays(date, k)) # <<>>
    IN IF \E k \in 1..7 : Hit(k)
       THEN CHOOSE k \in 1..7 : Hit(k) /\ \A j \in 1..(k - 1) : ~Hit(j)
       ELSE 0

\* the loop "for days_ahead in range(1, 8)" of _handle_booking_conflicts:
\* the days_ahead of the first available day with a free hour, 0 if none
ForwardDay(appts, doctor_id, date) ==
    LET Hit(k) == /\ InList(AddDays(date, k), Doctors[doctor_id].available_days)
                  /\ AvailableTimes(appts, doctor_id, AddDays(date, k)) # <<>>
    IN IF \E k \in 1..7 : Hit(k)
       THEN CHOOSE k \in 1..7 : Hit(k) /\ \A j \in 1..(k - 1) : ~Hit(j)
       ELSE 0

\* best time that never prefers the requested time
BestTimeEarliest(day_available_times, time) ==
    day_available_times[1]

\* best_time = time if time in day_available_times else day_available_times[0]
BestTime(day_available_times, time) ==
    IF InList(time, day_available_times) THEN time ELSE day_available_times[1]

\* _handle_booking_conflicts
HandleBookingConflicts(appts, doctor_id, date, time, auto_reschedule) ==
    LET Existing(apt) == /\ apt.doctor_id = doctor_id
                         /\ apt.date = date
                         /\ apt.time = time
                         /\ apt.status = SCHEDULED
        existing == SelectSeq(appts, Existing)
        available_times == AvailableTimes(appts, doctor_id, date)
        ahead == ForwardDay(appts, doctor_id, date)
    IN IF existing = <<>> THEN
           [status |-> "no_conflict"]
       ELSE IF ~auto_reschedule THEN
           [status |-> "conflict",
            conflicting_appointment |-> existing[1].id,
            alternative_times_same_day |-> available_times]
       ELSE IF available_times # <<>> THEN
           [status |-> "rescheduled",
            new_date |-> date,
            new_time |-> ClosestTime(available_times, time)]
       ELSE IF ahead # 0 THEN
           [status |-> "rescheduled",
            new_date |-> AddDays(date, ahead),
            new_time |-> BestTime(AvailableTimes(appts, doctor_id, AddDays(date, ahead)), time)]
       ELSE
           [status |-> "no_alternatives"]

\* specialty_mappings of _auto_complete_booking_info, in dict order
BookingSpecialtyMappings ==
    << [spec |-> <<"c","a","r","d","i","o","l","o","g","y">>,
        keywords |-> << <<"h","e","a","r","t">>,
                        <<"c","a","r","d","i","a","c">>,
                        <<"c","a","r","d","i","o","l","o","g","i","s","t">> >>],
       [spec |-> <<"n","e","u","r","o","l","o","g","y">>,
        keywords |-> << <<"b","r","a","i","n">>,
                        <<"n","e","r","v","e">>,
                        <<"n","e","u","r","o","l","o","g","i","s","t">> >>],
       [spec |-> <<"o","r","t","h","o","p","e","d","i","c","s">>,
        keywords |-> << <<"b","o","n","e">>,
                        <<"j","o","i","n","t">>,
                        <<"o","r","t","h","o","p","e","d","i","c">> >>],
       [spec |-> <<"g","e","n","e","r","a","l"," ","m","e","d","i","c","i","n","e">>,
        keywords |-> << <<"g","e","n","e","r","a","l">>,
                        <<"f","a","m","i","l","y">>,
                        <<"p","r","i","m","a","r","y">> >>] >>

\* the loop over specialty_mappings: the first spec one of whose keywords is in
\* the text or that contains the text; <<>> when there is none
TargetSpecialty(mappings, specialty) ==
    LET specialty_lower == StrLower(specialty)
        Match(m) == \/ \E i \in 1..Len(m.keywords) : StrContains(m.keywords[i], specialty_lower)
                    \/ StrContains(specialty_lower, m.spec)
    IN IF \E i \in 1..Len(mappings) : Match(mappings[i])
       THEN mappings[CHOOSE i \in 1..Len(mappings) :
                        Match(mappings[i]) /\ \A j \in 1..(i - 1) : ~Match(mappings[j])].spec
       ELSE <<>>

\* len([apt for apt in appointments if apt.doctor_id == doc.id and apt.status == SCHEDULED])
DoctorLoad(appts, doctor_id) ==
    LET Mine(apt) == apt.doctor_id = doctor_id /\ apt.status = SCHEDULED
    IN Len(SelectSeq(appts, Mine))

\* min(doctor_loads.items(), key=load)[0] over the matching doctors, in their
\* order: the first doctor of the smallest load; "" when no doctor matches
LeastLoaded(appts, matching_doctors) ==
    IF matching_doctors = <<>> THEN ""
    ELSE matching_doctors[
            CHOOSE i \in 1..Len(matching_doctors) :
                /\ \A j \in 1..Len(matching_doctors) :
                      DoctorLoad(appts, matching_doctors[j]) >= DoctorLoad(appts, matching_doctors[i])
                /\ \A j \in 1..(i - 1) :
                      DoctorLoad(appts, matching_doctors[j]) > DoctorLoad(appts, matching_doctors[i])]

\* every doctor, whatever the target specialty
MatchingDoctorsAny(target) ==
    DoctorOrder

\* the doctors whose specialty contains the target specialty
MatchingDoctors(target) ==
    LET Matching(d) == StrContains(target, StrLower(Doctors[d].specialty))
    IN SelectSeq(DoctorOrder, Matching)

\* the doctor selection of _auto_complete_booking_info: among the doctors whose
\* specialty contains the target, min by load, the first of equal loads;
\* "" when the specialty maps to nothing or no doctor matches
SelectDoctor(appts, specialty) ==
    With(TargetSpecialty(BookingSpecialtyMappings, specialty),
         LAMBDA target : IF target = <<>> THEN ""
                         ELSE With(MatchingDoctors(target),
                                   LAMBDA matching : LeastLoaded(appts, matching)))

\* the date automation: the first of today .. today+13 in the doctor's
\* available_days; <<>> (the date stays None) when there is none
DefaultDate(doctor_id, today) ==
    LET Hit(k) == InList(AddDays(today, k), Doctors[doctor_id].available_days)
    IN IF \E k \in 0..13 : Hit(k)
       THEN AddDays(today, CHOOSE k \in 0..13 : Hit(k) /\ \A j \in 0..(k - 1) : ~Hit(j))
       ELSE <<>>

\* the automation that completes an omitted time with the last free hour
CompleteDateAndTimeLastHour(appts, req, doctor_id) ==
    LET known == doctor_id \in DOMAIN Doctors
        date == IF req.date = <<>> /\ known THEN DefaultDate(doctor_id, req.today) ELSE req.date
        available_times == IF known THEN AvailableTimes(appts, doctor_id, date) ELSE <<>>
        time == IF req.time = <<>> /\ available_times # <<>> THEN available_times[Len(available_times)] ELSE req.time
    IN IF doctor_id = "" THEN [status |-> "missing_doctor"]
       ELSE IF (req.date = <<>> \/ req.time = <<>>) /\ ~known THEN [status |-> "error"]
       ELSE IF req.time = <<>> /\ available_times = <<>> THEN [status |-> "no_availability"]
       ELSE [status |-> "ready",
             patient_id |-> req.patient_id,
             doctor_id |-> doctor_id,
             date |-> date,
             time |-> time,
             auto_completed |-> (doctor_id # req.doctor_id \/ req.date = <<>> \/ req.time = <<>>)]

\* the date and time automation of _auto_complete_booking_info, for the
\* doctor_id it has settled on.  doctors[doctor_id] raises KeyError for an
\* unknown doctor when the date or the time has to be completed; the handler's
\* except turns it into status "error".
CompleteDateAndTime(appts, req, doctor_id) ==
    LET known == doctor_id \in DOMAIN Doctors
        date == IF req.date = <<>> /\ known THEN DefaultDate(doctor_id, req.today) ELSE req.date
        available_times == IF known THEN AvailableTimes(appts, doctor_id, date) ELSE <<>>
        time == IF req.time = <<>> /\ available_times # <<>> THEN available_times[1] ELSE req.time
    IN IF doctor_id = "" THEN [status |-> "missing_doctor"]
       ELSE IF (req.date = <<>> \/ req.time = <<>>) /\ ~known THEN [status |-> "error"]
       ELSE IF req.time = <<>> /\ available_times = <<>> THEN [status |-> "no_availability"]
       ELSE [status |-> "ready",
             patient_id |-> req.patient_id,
             doctor_id |-> doctor_id,
             date |-> date,
             time |-> time,
             auto_completed |-> (doctor_id # req.doctor_id \/ req.date = <<>> \/ req.time = <<>>)]

\* _auto_complete_booking_info
AutoCompleteBookingInfo(appts, req) ==
    IF req.patient_id = <<>> THEN [status |-> "missing_patient"]
    ELSE With(IF req.doctor_id = "" /\ req.specialty # <<>>
              THEN SelectDoctor(appts, req.specialty)
              ELSE req.doctor_id,
              LAMBDA doctor_id : CompleteDateAndTime(appts, req, doctor_id))

\* _validate_booking_parameters
ValidateBookingParameters(patient_id, doctor_id, date, time) ==
    IF doctor_id \notin DOMAIN Doctors THEN [status |-> "invalid_doctor"]
    ELSE IF ~InList(date, Doctors[doctor_id].available_days) THEN [status |-> "invalid_date"]
    ELSE IF ~InList(time, Doctors[doctor_id].available_hours) THEN [status |-> "invalid_time"]
    ELSE [status |-> "valid"]

\* the part of AutomatedBookingTool.execute after the conflict handling: the
\* early return on a conflict, else add_appointment and the confirmation
CommitBooking(appts, counter, completion, conflict, auto_reschedule) ==
    LET final_date == IF conflict.status = "rescheduled" THEN conflict.new_date ELSE completion.date
        final_time == IF conflict.status = "rescheduled" THEN conflict.new_time ELSE completion.time
        added == AddAppointment(appts, counter,
                     [id |-> <<>>,
                      patient_id |-> completion.patient_id,
                      doctor_id |-> completion.doctor_id,
                      date |-> final_date,
                      time |-> final_time,
                      status |-> SCHEDULED])
    IN IF conflict.status = "conflict" /\ ~auto_reschedule THEN
           [res |-> conflict, appointments |-> appts, counter |-> counter]
       ELSE
           [res |-> [status |-> "success",
                     appointment |-> [id |-> added.id,
                                      patient_id |-> completion.patient_id,
                                      doctor_id |-> completion.doctor_id,
                                      date |-> final_date,
                                      time |-> final_time],
                     rescheduled |-> (conflict.status = "rescheduled"),
                     auto_completed |-> completion.auto_completed],
            appointments |-> added.appointments,
            counter |-> added.counter]

\* the part of AutomatedBookingTool.execute after the auto-completion
BookCompleted(appts, counter, completion, auto_reschedule) ==
    IF completion.status # "ready" THEN
        [res |-> completion, appointments |-> appts, counter |-> counter]
    ELSE IF ValidateBookingParameters(completion.patient_id, completion.doctor_id,
                                      completion.date, completion.time).status # "valid" THEN
        [res |-> ValidateBookingParameters(completion.patient_id, completion.doctor_id,
                                           completion.date, completion.time),
         appointments |-> appts, counter |-> counter]
    ELSE
        With(HandleBookingConflicts(appts, completion.doctor_id, completion.date,
                                    completion.time, auto_reschedule),
             LAMBDA conflict : CommitBooking(appts, counter, completion, conflict, auto_reschedule))

\* AutomatedBookingTool.execute, run to completion on one state of the store:
\* the result and the store it leaves
ExecuteBooking(appts, counter, req) ==
    With(AutoCompleteBookingInfo(appts, req),
         LAMBDA completion : BookCompleted(appts, counter, completion, req.auto_reschedule))

-----------------------------------------------------------------------------
(* SmartCancellationTool *)

\* id lookup that forgets the status test
FindByIdAnyStatus(appts, appointment_id) ==
    LET Hit(i) == StrUpper(appts[i].id) = StrUpper(appointment_id)
    IN IF \E i \in 1..Len(appts) : Hit(i)
       THEN CHOOSE i \in 1..Len(appts) : Hit(i) /\ \A j \in 1..(i - 1) : ~Hit(j)
       ELSE 0

\* next((apt for apt in appointments if apt.id.upper() == appointment_id.upper()
\*       and apt.status == SCHEDULED), None): its index, 0 for None
FindById(appts, appointment_id) ==
    LET Hit(i) == /\ StrUpper(appts[i].id) = StrUpper(appointment_id)
                  /\ appts[i].status = SCHEDULED
    IN IF \E i \in 1..Len(appts) : Hit(i)
       THEN CHOOSE i \in 1..Len(appts) : Hit(i) /\ \A j \in 1..(i - 1) : ~Hit(j)
       ELSE 0

\* active_appointments = [apt.id for apt in appointments if apt.status == SCHEDULED]
ActiveAppointments(appts) ==
    LET Active(apt) == apt.status = SCHEDULED
        active == SelectSeq(appts, Active)
    IN [i \in 1..Len(active) |-> active[i].id]

\* similar_ids = [apt_id for apt_id in active_appointments
\*                if appointment_id.upper() in apt_id or apt_id in appointment_id.upper()]
SimilarIds(appts, appointment_id) ==
    LET Similar(apt_id) == \/ StrContains(StrUpper(appointment_id), apt_id)
                           \/ StrContains(apt_id, StrUpper(appointment_id))
    IN SelectSeq(ActiveAppointments(appts), Similar)

\* the criteria search without its date test
MatchScoreNoDate(apt, req) ==
      (IF req.patient_id # <<>> /\ StrContains(StrLower(req.patient_id), StrLower(apt.patient_id))
       THEN 3 ELSE 0)
    + (IF req.doctor_id # "" /\ req.doctor_id = apt.doctor_id THEN 2 ELSE 0)

\* match_score of one appointment in the criteria search
MatchScore(apt, req) ==
      (IF req.patient_id # <<>> /\ StrContains(StrLower(req.patient_id), StrLower(apt.patient_id))
       THEN 3 ELSE 0)
    + (IF req.doctor_id # "" /\ req.doctor_id = apt.doctor_id THEN 2 ELSE 0)
    + (IF req.date # <<>> /\ req.date = apt.date THEN 2 ELSE 0)

\* list.sort(key=match_score, reverse=True): descending and stable
RECURSIVE SortByScore(_)
SortByScore(results) ==
    IF results = <<>> THEN <<>>
    ELSE LET k == CHOOSE i \in 1..Len(results) :
                    /\ \A j \in 1..Len(results) : results[j].match_score <= results[i].match_score
                    /\ \A j \in 1..(i - 1) : results[j].match_score < results[i].match_score
         IN <<results[k]>> \o
            SortByScore(SubSeq(results, 1, k - 1) \o SubSeq(results, k + 1, Len(results)))

\* search_results of the criteria search: the SCHEDULED appointments of
\* positive score, as (index, score), sorted
SearchResults(appts, req) ==
    LET scored == [i \in 1..Len(appts) |->
                      [index |-> i, match_score |-> MatchScore(appts[i], req)]]
        Keep(r) == appts[r.index].status = SCHEDULED /\ r.match_score > 0
    IN SortByScore(SelectSeq(scored, Keep))

\* a search that takes the first similar active id when the id is not found
FindToCancelGuessing(appts, req) ==
    LET by_id == FindById(appts, req.appointment_id)
        similar_ids == SimilarIds(appts, req.appointment_id)
        search_results == SearchResults(appts, req)
        top == SubSeq(search_results, 1, IF Len(search_results) < 5 THEN Len(search_results) ELSE 5)
    IN IF req.appointment_id # <<>> THEN
           IF by_id # 0 THEN [found |-> TRUE, index |-> by_id]
           ELSE IF similar_ids # <<>> THEN
               [found |-> TRUE, index |-> FindById(appts, similar_ids[1])]
           ELSE [found |-> FALSE,
                 res |-> [status |-> "not_found",
                          active_appointments |-> ActiveAppointments(appts),
                          similar_appointments |-> similar_ids]]
       ELSE IF search_results = <<>> THEN
           [found |-> FALSE, res |-> [status |-> "no_matches"]]
       ELSE IF Len(search_results) = 1 THEN
           [found |-> TRUE, index |-> search_results[1].index]
       ELSE
           [found |-> FALSE,
            res |-> [status |-> "multiple_matches",
                     matches |-> [i \in 1..Len(top) |-> search_results[i]]]]

\* the search half of SmartCancellationTool.execute:
\* either the index of appointment_to_cancel or the result returned early
FindToCancel(appts, req) ==
    LET by_id == FindById(appts, req.appointment_id)
        search_results == SearchResults(appts, req)
        top == SubSeq(search_results, 1, IF Len(search_results) < 5 THEN Len(search_results) ELSE 5)
    IN IF req.appointment_id # <<>> THEN
           IF by_id # 0 THEN [found |-> TRUE, index |-> by_id]
           ELSE [found |-> FALSE,
                 res |-> [status |-> "not_found",
                          active_appointments |-> ActiveAppointments(appts),
                          similar_appointments |-> SimilarIds(appts, req.appointment_id)]]
       ELSE IF search_results = <<>> THEN
           [found |-> FALSE, res |-> [status |-> "no_matches"]]
       ELSE IF Len(search_results) = 1 THEN
           [found |-> TRUE, index |-> search_results[1].index]
       ELSE
           [found |-> FALSE,
            res |-> [status |-> "multiple_matches",
                     found_count |-> Len(search_results),
                     matches |-> [i \in 1..Len(top) |-> appts[top[i].index].id]]]

\* s[:n]
Take(s, n) == SubSeq(s, 1, IF Len(s) < n THEN Len(s) ELSE n)

\* the first day of the range the doctor works, free hour or not
SuggestionDayAnyHours(appts, doctor_id, date, first, stop) ==
    LET Hit(k) == InList(AddDays(date, k), Doctors[doctor_id].available_days)
    IN IF \E k \in first..(stop - 1) : Hit(k)
       THEN CHOOSE k \in first..(stop - 1) : Hit(k) /\ \A j \in first..(k - 1) : ~Hit(j)
       ELSE -1

\* the loops "for days_ahead in range(first, stop)" of
\* _generate_rebooking_suggestions: the days_ahead of the first day of the
\* doctor's available_days with a free hour, -1 if the loop ends without one
SuggestionDay(appts, doctor_id, date, first, stop) ==
    LET Hit(k) == /\ InList(AddDays(date, k), Doctors[doctor_id].available_days)
                  /\ AvailableTimes(appts, doctor_id, AddDays(date, k)) # <<>>
    IN IF \E k \in first..(stop - 1) : Hit(k)
       THEN CHOOSE k \in first..(stop - 1) : Hit(k) /\ \A j \in first..(k - 1) : ~Hit(j)
       ELSE -1

\* the same-doctor suggestion with the day of the cancelled appointment included
SameDoctorSuggestionFromSameDay(appts, cancelled_appointment) ==
    With(SuggestionDay(appts, cancelled_appointment.doctor_id, cancelled_appointment.date, 0, 14),
         LAMBDA days_ahead :
            IF days_ahead = -1 THEN <<>>
            ELSE << [type |-> "same_doctor",
                     doctor_id |-> cancelled_appointment.doctor_id,
                     date |-> AddDays(cancelled_appointment.date, days_ahead),
                     available_times |->
                         Take(AvailableTimes(appts, cancelled_appointment.doctor_id,
                                             AddDays(cancelled_appointment.date, days_ahead)), 3),
                     priority |-> 1] >>)

\* "Same doctor, different time": at most one suggestion
SameDoctorSuggestion(appts, cancelled_appointment) ==
    With(SuggestionDay(appts, cancelled_appointment.doctor_id, cancelled_appointment.date, 1, 14),
         LAMBDA days_ahead :
            IF days_ahead = -1 THEN <<>>
            ELSE << [type |-> "same_doctor",
                     doctor_id |-> cancelled_appointment.doctor_id,
                     date |-> AddDays(cancelled_appointment.date, days_ahead),
                     available_times |->
                         Take(AvailableTimes(appts, cancelled_appointment.doctor_id,
                                             AddDays(cancelled_appointment.date, days_ahead)), 3),
                     priority |-> 1] >>)

\* other_doctors: the doctors of exactly the same specialty, the cancelled
\* appointment's own doctor apart
OtherDoctors(doctor_id) ==
    LET Other(d) == /\ Doctors[d].specialty = Doctors[doctor_id].specialty
                    /\ d # doctor_id
    IN SelectSeq(DoctorOrder, Other)

\* "Different doctor, same specialty" for one other doctor: at most one suggestion
OtherDoctorSuggestion(appts, cancelled_appointment, other_doc) ==
    With(SuggestionDay(appts, other_doc, cancelled_appointment.date, 0, 7),
         LAMBDA days_ahead :
            IF days_ahead = -1 THEN <<>>
            ELSE << [type |-> "same_specialty",
                     doctor_id |-> other_doc,
                     date |-> AddDays(cancelled_appointment.date, days_ahead),
                     available_times |->
                         Take(AvailableTimes(appts, other_doc,
                                             AddDays(cancelled_appointment.date, days_ahead)), 2),
                     priority |-> 2] >>)

\* the loop "for other_doc in other_doctors"
RECURSIVE SameSpecialtySuggestions(_, _, _)
SameSpecialtySuggestions(appts, cancelled_appointment, other_doctors) ==
    IF other_doctors = <<>> THEN <<>>
    ELSE OtherDoctorSuggestion(appts, cancelled_appointment, other_doctors[1])
         \o SameSpecialtySuggestions(appts, cancelled_appointment,
                                     SubSeq(other_doctors, 2, Len(other_doctors)))

\* suggestions.sort(key=priority): ascending and stable
RECURSIVE SortByPriority(_)
SortByPriority(suggestions) ==
    IF suggestions = <<>> THEN <<>>
    ELSE LET k == CHOOSE i \in 1..Len(suggestions) :
                    /\ \A j \in 1..Len(suggestions) :
                          suggestions[j].priority >= suggestions[i].priority
                    /\ \A j \in 1..(i - 1) :
                          suggestions[j].priority > suggestions[i].priority
         IN <<suggestions[k]>> \o
            SortByPriority(SubSeq(suggestions, 1, k - 1)
                           \o SubSeq(suggestions, k + 1, Len(suggestions)))

\* _generate_rebooking_suggestions, on the appointments as they are after the
\* status update
GenerateRebookingSuggestions(appts, cancelled_appointment) ==
    Take(SortByPriority(
             SameDoctorSuggestion(appts, cancelled_appointment)
             \o SameSpecialtySuggestions(appts, cancelled_appointment,
                                         OtherDoctors(cancelled_appointment.doctor_id))),
         3)

\* the result of a performed cancellation of target (the Appointment object
\* found by the search), given what update_appointment_status returned and
\* the suggestions; rebooking_options is empty where the code leaves the key out
CancellationResponse(target, success, rebooking_suggestions) ==
    IF ~success THEN [status |-> "error"]
    ELSE [status |-> "success",
          cancelled_appointment |-> [id |-> target.id,
                                     patient_id |-> target.patient_id,
                                     doctor_id |-> target.doctor_id,
                                     date |-> target.date,
                                     time |-> target.time],
          freed_slot |-> [doctor_id |-> target.doctor_id,
                          date |-> target.date,
                          time |-> target.time],
          rebooking_options |-> rebooking_suggestions]

\* the part of SmartCancellationTool.execute from the status update on
PerformCancellation(appts, target) ==
    With(UpdateAppointmentStatus(appts, target.id, CANCELLED),
         LAMBDA updated :
            [res |-> CancellationResponse(target, updated.success,
                         IF updated.success
                         THEN GenerateRebookingSuggestions(updated.appointments, target)
                         ELSE <<>>),
             appointments |-> updated.appointments])

\* the part of SmartCancellationTool.execute after the search
CancelFound(appts, search) ==
    IF ~search.found THEN [res |-> search.res, appointments |-> appts]
    ELSE PerformCancellation(appts, appts[search.index])

\* SmartCancellationTool.execute, run to completion on one state of the store
ExecuteCancellation(appts, req) ==
    With(FindToCancel(appts, req), LAMBDA search : CancelFound(appts, search))

-----------------------------------------------------------------------------
(* IntelligentAvailabilityTool *)

\* specialty_mappings of IntelligentAvailabilityTool.execute, in dict order
AvailabilitySpecialtyMappings ==
    << [spec |-> <<"c","a","r","d","i","o","l","o","g","y">>,
        keywords |-> << <<"h","e","a","r","t">>,
                        <<"c","a","r","d","i","a","c">>,
                        <<"c","a","r","d","i","o","l","o","g","i","s","t">> >>],
       [spec |-> <<"n","e","u","r","o","l","o","g","y">>,
        keywords |-> << <<"b","r","a","i","n">>,
                        <<"n","e","r","v","e">>,
                        <<"n","e","u","r","o","l","o","g","i","s","t">>,
                        <<"n","e","u","r","o">> >>],
       [spec |-> <<"o","r","t","h","o","p","e","d","i","c","s">>,
        keywords |-> << <<"b","o","n","e">>,
                        <<"j","o","i","n","t">>,
                        <<"o","r","t","h","o","p","e","d","i","c">>,
                        <<"o","r","t","h","o">> >>],
       [spec |-> <<"g","e","n","e","r","a","l"," ","m","e","d","i","c","i","n","e">>,
        keywords |-> << <<"g","e","n","e","r","a","l">>,
                        <<"f","a","m","i","l","y">>,
                        <<"p","r","i","m","a","r","y">>,
                        <<"g","p">> >>] >>

\* the loop "for days_ahead in range(0, 7)" of _get_doctor_availability:
\* next_slots, one entry per available day from today with a free hour
NextSlots(appts, doctor_id, today) ==
    LET Open(k) == /\ InList(AddDays(today, k), Doctors[doctor_id].available_days)
                   /\ AvailableTimes(appts, doctor_id, AddDays(today, k)) # <<>>
        open == SelectSeq(<<0, 1, 2, 3, 4, 5, 6>>, Open)
    IN [i \in 1..Len(open) |->
           [date |-> AddDays(today, open[i]),
            available_times |-> AvailableTimes(appts, doctor_id, AddDays(today, open[i])),
            slots_available |-> Len(AvailableTimes(appts, doctor_id, AddDays(today, open[i])))]]

\* the availability that lists every configured hour as available
GetDoctorAvailabilityAllHours(appts, doctor_id, date, today) ==
    IF doctor_id \notin DOMAIN Doctors THEN [status |-> "error"]
    ELSE IF date # <<>> THEN
        IF ~InList(date, Doctors[doctor_id].available_days) THEN
            [status |-> "unavailable_date",
             available_dates |-> Doctors[doctor_id].available_days]
        ELSE
            [status |-> "success",
             date |-> date,
             available_slots |-> Doctors[doctor_id].available_hours,
             booked_slots |-> BookedTimes(appts, doctor_id, date),
             total_capacity |-> Len(Doctors[doctor_id].available_hours)]
    ELSE
        With(NextSlots(appts, doctor_id, today),
             LAMBDA next_slots :
                [status |-> "success",
                 next_7_days_availability |-> next_slots,
                 earliest_available |-> IF next_slots # <<>> THEN next_slots[1] ELSE <<>>])

\* _get_doctor_availability; the rounded utilization figure is left out
GetDoctorAvailability(appts, doctor_id, date, today) ==
    IF doctor_id \notin DOMAIN Doctors THEN [status |-> "error"]
    ELSE IF date # <<>> THEN
        IF ~InList(date, Doctors[doctor_id].available_days) THEN
            [status |-> "unavailable_date",
             available_dates |-> Doctors[doctor_id].available_days]
        ELSE
            [status |-> "success",
             date |-> date,
             available_slots |-> AvailableTimes(appts, doctor_id, date),
             booked_slots |-> BookedTimes(appts, doctor_id, date),
             total_capacity |-> Len(Doctors[doctor_id].available_hours)]
    ELSE
        With(NextSlots(appts, doctor_id, today),
             LAMBDA next_slots :
                [status |-> "success",
                 next_7_days_availability |-> next_slots,
                 earliest_available |-> IF next_slots # <<>> THEN next_slots[1] ELSE <<>>])

\* an availability result that lists at least one open day
HasOpenDays(r) ==
    /\ r.status = "success"
    /\ "next_7_days_availability" \in DOMAIN r
    /\ r.next_7_days_availability # <<>>

\* total_slots_today of _generate_availability_summary: the slots of the first
\* open day of every doctor that has one
RECURSIVE SlotsToday(_)
SlotsToday(results) ==
    IF results = <<>> THEN 0
    ELSE (IF HasOpenDays(Head(results))
          THEN Head(results).next_7_days_availability[1].slots_available ELSE 0)
         + SlotsToday(Tail(results))

\* _generate_availability_summary over the per-doctor results, in doctor order
AvailabilitySummary(results) ==
    LET Busy(r) == r.status = "success" /\ ~HasOpenDays(r)
    IN [available_doctors |-> Len(SelectSeq(results, HasOpenDays)),
        busy_doctors |-> Len(SelectSeq(results, Busy)),
        total_available_slots_today |-> SlotsToday(results)]

\* the per-doctor results of IntelligentAvailabilityTool.execute, in list order
AvailabilityOf(appts, doctor_ids, req) ==
    [i \in 1..Len(doctor_ids) |->
        GetDoctorAvailability(appts, doctor_ids[i], req.date, req.today)]

\* the specialty branch of IntelligentAvailabilityTool.execute
SpecialtyAvailability(appts, req, target) ==
    IF target # <<>> /\ MatchingDoctors(target) # <<>> THEN
        [status |-> "success",
         specialty |-> target,
         doctors |-> MatchingDoctors(target),
         availability_by_doctor |-> AvailabilityOf(appts, MatchingDoctors(target), req)]
    ELSE [status |-> "error"]

\* the system-wide branch of IntelligentAvailabilityTool.execute
SystemAvailability(results) ==
    [status |-> "success",
     doctors |-> DoctorOrder,
     system_wide_availability |-> results,
     summary |-> AvailabilitySummary(results)]

\* IntelligentAvailabilityTool.execute
ExecuteAvailability(appts, req) ==
    IF req.doctor_id # "" /\ req.doctor_id \notin DOMAIN Doctors THEN
        [status |-> "error"]
    ELSE IF req.specialty # <<>> /\ req.doctor_id = "" THEN
        With(TargetSpecialty(AvailabilitySpecialtyMappings, req.specialty),
             LAMBDA target : SpecialtyAvailability(appts, req, target))
    ELSE IF req.doctor_id # "" THEN
        GetDoctorAvailability(appts, req.doctor_id, req.date, req.today)
    ELSE
        With(AvailabilityOf(appts, DoctorOrder, req), SystemAvailability)

-----------------------------------------------------------------------------
(* SmartDoctorSearchTool and AdvancedAnalyticsTool.  A utilization is          *)
(* load / capacity * 100; it is compared with a threshold t as                 *)
(* load * 100 against t * capacity, in whole numbers.                          *)

\* str.replace(sub, ""): the occurrences of sub taken out, left to right
RECURSIVE StrRemove(_, _)
StrRemove(s, sub) ==
    IF Len(s) < Len(sub) \/ sub = <<>> THEN s
    ELSE IF SubSeq(s, 1, Len(sub)) = sub
         THEN StrRemove(SubSeq(s, Len(sub) + 1, Len(s)), sub)
         ELSE <<Head(s)>> \o StrRemove(Tail(s), sub)

\* Doctor.name, character by character
DoctorNameChars ==
    [d \in Range(DoctorOrder) |->
        CASE d = "dr_smith" -> <<"D","r","."," ","S","m","i","t","h">>
          [] d = "dr_jones" -> <<"D","r","."," ","J","o","n","e","s">>
          [] d = "dr_wilson" -> <<"D","r","."," ","W","i","l","s","o","n">>
          [] d = "dr_brown" -> <<"D","r","."," ","B","r","o","w","n">>]

\* specialty_mappings of SmartDoctorSearchTool.execute, in dict order
SearchSpecialtyMappings ==
    << [keyword |-> <<"h","e","a","r","t">>, mapped |-> <<"c","a","r","d","i","o","l","o","g","y">>],
       [keyword |-> <<"c","a","r","d","i","a","c">>, mapped |-> <<"c","a","r","d","i","o","l","o","g","y">>],
       [keyword |-> <<"c","a","r","d","i","o","l","o","g","i","s","t">>, mapped |-> <<"c","a","r","d","i","o","l","o","g","y">>],
       [keyword |-> <<"c","a","r","d","i","o","v","a","s","c","u","l","a","r">>, mapped |-> <<"c","a","r","d","i","o","l","o","g","y">>],
       [keyword |-> <<"h","e","a","r","t"," ","d","o","c","t","o","r">>, mapped |-> <<"c","a","r","d","i","o","l","o","g","y">>],
       [keyword |-> <<"b","r","a","i","n">>, mapped |-> <<"n","e","u","r","o","l","o","g","y">>],
       [keyword |-> <<"n","e","r","v","e">>, mapped |-> <<"n","e","u","r","o","l","o","g","y">>],
       [keyword |-> <<"n","e","u","r","o","l","o","g","i","s","t">>, mapped |-> <<"n","e","u","r","o","l","o","g","y">>],
       [keyword |-> <<"n","e","u","r","o">>, mapped |-> <<"n","e","u","r","o","l","o","g","y">>],
       [keyword |-> <<"b","r","a","i","n"," ","d","o","c","t","o","r">>, mapped |-> <<"n","e","u","r","o","l","o","g","y">>],
       [keyword |-> <<"n","e","r","v","o","u","s"," ","s","y","s","t","e","m">>, mapped |-> <<"n","e","u","r","o","l","o","g","y">>],
       [keyword |-> <<"b","o","n","e">>, mapped |-> <<"o","r","t","h","o","p","e","d","i","c","s">>],
       [keyword |-> <<"j","o","i","n","t">>, mapped |-> <<"o","r","t","h","o","p","e","d","i","c","s">>],
       [keyword |-> <<"o","r","t","h","o","p","e","d","i","c">>, mapped |-> <<"o","r","t","h","o","p","e","d","i","c","s">>],
       [keyword |-> <<"o","r","t","h","o">>, mapped |-> <<"o","r","t","h","o","p","e","d","i","c","s">>],
       [keyword |-> <<"b","o","n","e"," ","d","o","c","t","o","r">>, mapped |-> <<"o","r","t","h","o","p","e","d","i","c","s">>],
       [keyword |-> <<"m","u","s","c","u","l","o","s","k","e","l","e","t","a","l">>, mapped |-> <<"o","r","t","h","o","p","e","d","i","c","s">>],
       [keyword |-> <<"g","e","n","e","r","a","l">>, mapped |-> <<"g","e","n","e","r","a","l"," ","m","e","d","i","c","i","n","e">>],
       [keyword |-> <<"f","a","m","i","l","y">>, mapped |-> <<"g","e","n","e","r","a","l"," ","m","e","d","i","c","i","n","e">>],
       [keyword |-> <<"p","r","i","m","a","r","y">>, mapped |-> <<"g","e","n","e","r","a","l"," ","m","e","d","i","c","i","n","e">>],
       [keyword |-> <<"f","a","m","i","l","y"," ","d","o","c","t","o","r">>, mapped |-> <<"g","e","n","e","r","a","l"," ","m","e","d","i","c","i","n","e">>],
       [keyword |-> <<"g","p">>, mapped |-> <<"g","e","n","e","r","a","l"," ","m","e","d","i","c","i","n","e">>] >>

\* the "Smart specialty detection" loop: the mapping of the first keyword
\* found in the lowered specialty, the lowered specialty itself without one
MappedSpecialty(specialty) ==
    LET specialty_lower == StrLower(specialty)
        Hit(i) == StrContains(SearchSpecialtyMappings[i].keyword, specialty_lower)
    IN IF \E i \in 1..Len(SearchSpecialtyMappings) : Hit(i)
       THEN SearchSpecialtyMappings[CHOOSE i \in 1..Len(SearchSpecialtyMappings) :
                                       Hit(i) /\ \A j \in 1..(i - 1) : ~Hit(j)].mapped
       ELSE specialty_lower

\* len(doctor.available_hours) * len(doctor.available_days)
TotalCapacity(doctor_id) ==
    Len(Doctors[doctor_id].available_hours) * Len(Doctors[doctor_id].available_days)

\* availability_status of the specialty search: utilization >= 90, >= 70, >= 40
AvailabilityStatus(current_load, total_capacity) ==
    IF total_capacity > 0 /\ current_load * 100 >= 90 * total_capacity THEN "fully_booked"
    ELSE IF total_capacity > 0 /\ current_load * 100 >= 70 * total_capacity THEN "busy"
    ELSE IF total_capacity > 0 /\ current_load * 100 >= 40 * total_capacity THEN "moderate"
    ELSE "available"

\* availability_status of the search by name and of the list of all doctors
BusyOrAvailable(current_load, total_capacity) ==
    IF total_capacity > 0 /\ current_load * 100 > 70 * total_capacity THEN "busy"
    ELSE "available"

\* the next slot looked for in today .. today+6 only
NextAvailableSlotInAWeek(appts, doctor_id, today) ==
    LET Open(k) == /\ InList(AddDays(today, k), Doctors[doctor_id].available_days)
                   /\ AvailableTimes(appts, doctor_id, AddDays(today, k)) # <<>>
    IN IF \E k \in 0..6 : Open(k)
       THEN With(AddDays(today, CHOOSE k \in 0..6 : Open(k) /\ \A j \in 0..(k - 1) : ~Open(j)),
                 LAMBDA check_date :
                    [date |-> check_date,
                     time |-> AvailableTimes(appts, doctor_id, check_date)[1]])
       ELSE <<>>

\* _get_next_available_slot: the first free hour of the first of today ..
\* today+13 the doctor works and has one, <<>> for None
NextAvailableSlot(appts, doctor_id, today) ==
    LET Open(k) == /\ InList(AddDays(today, k), Doctors[doctor_id].available_days)
                   /\ AvailableTimes(appts, doctor_id, AddDays(today, k)) # <<>>
    IN IF \E k \in 0..13 : Open(k)
       THEN With(AddDays(today, CHOOSE k \in 0..13 : Open(k) /\ \A j \in 0..(k - 1) : ~Open(j)),
                 LAMBDA check_date :
                    [date |-> check_date,
                     time |-> AvailableTimes(appts, doctor_id, check_date)[1]])
       ELSE <<>>

\* the entry of one doctor in a search result, status being the
\* availability_status of the branch
DoctorEntry(appts, doctor_id, today, status) ==
    [doctor_id |-> doctor_id,
     current_appointments |-> DoctorLoad(appts, doctor_id),
     availability_status |-> status,
     next_available |-> NextAvailableSlot(appts, doctor_id, today)]

\* the branch "if specialty" of SmartDoctorSearchTool.execute
SearchBySpecialty(appts, req) ==
    With(MappedSpecialty(req.specialty),
         LAMBDA mapped_specialty :
            With(SelectSeq(DoctorOrder,
                           LAMBDA d : StrContains(mapped_specialty, StrLower(Doctors[d].specialty))),
                 LAMBDA matching_doctors :
                    IF matching_doctors = <<>> THEN [status |-> "no_match"]
                    ELSE [status |-> "success",
                          specialty_searched |-> mapped_specialty,
                          doctors_found |-> Len(matching_doctors),
                          doctors |-> [d \in Range(matching_doctors) |->
                              DoctorEntry(appts, d, req.today,
                                  AvailabilityStatus(DoctorLoad(appts, d), TotalCapacity(d)))]]))

\* doc.name.lower().replace('dr. ', '').replace('dr ', '')
DocNameClean(doctor_id) ==
    StrRemove(StrRemove(StrLower(DoctorNameChars[doctor_id]), <<"d","r","."," ">>),
              <<"d","r"," ">>)

\* the branch "elif doctor_name": the first doctor whose cleaned name contains
\* the cleaned search name or is contained in it
SearchByName(appts, req) ==
    With(StrRemove(StrRemove(StrRemove(StrLower(req.doctor_name), <<"d","r","."," ">>),
                             <<"d","r"," ">>),
                   <<"d","o","c","t","o","r"," ">>),
         LAMBDA search_name :
            LET Hit(i) == \/ StrContains(search_name, DocNameClean(DoctorOrder[i]))
                          \/ StrContains(DocNameClean(DoctorOrder[i]), search_name)
            IN IF \E i \in 1..Len(DoctorOrder) : Hit(i)
               THEN With(DoctorOrder[CHOOSE i \in 1..Len(DoctorOrder) :
                                        Hit(i) /\ \A j \in 1..(i - 1) : ~Hit(j)],
                         LAMBDA d :
                            [status |-> "success",
                             doctor |-> DoctorEntry(appts, d, req.today,
                                            BusyOrAvailable(DoctorLoad(appts, d),
                                                            TotalCapacity(d)))])
               ELSE [status |-> "not_found"])

\* SmartDoctorSearchTool.execute
ExecuteDoctorSearch(appts, req) ==
    IF req.specialty # <<>> THEN SearchBySpecialty(appts, req)
    ELSE IF req.doctor_name # <<>> THEN SearchByName(appts, req)
    ELSE [status |-> "success",
          total_doctors |-> Len(DoctorOrder),
          total_appointments_in_system |-> Len(appts),
          all_doctors |-> [d \in Range(DoctorOrder) |->
              DoctorEntry(appts, d, req.today,
                  BusyOrAvailable(DoctorLoad(appts, d), TotalCapacity(d)))]]

\* the "Status categorization" of _generate_overview_analytics:
\* utilization_rate > 90, > 70, > 40
UtilizationStatus(appointment_count, total_capacity) ==
    IF total_capacity > 0 /\ appointment_count * 100 > 90 * total_capacity THEN "overbooked"
    ELSE IF total_capacity > 0 /\ appointment_count * 100 > 70 * total_capacity THEN "busy"
    ELSE IF total_capacity > 0 /\ appointment_count * 100 > 40 * total_capacity THEN "moderate"
    ELSE "underutilized"

\* the number of appointments of a status
CountOfStatus(appts, status) ==
    Len(SelectSeq(appts, LAMBDA apt : apt.status = status))

\* _generate_overview_analytics: the counts and doctor_performance; the
\* rounded rates, the recommendations and the financial overview are left out
GenerateOverviewAnalytics(appts) ==
    [status |-> "success",
     report_type |-> "system_overview",
     system_metrics |-> [total_doctors |-> Len(DoctorOrder),
                         total_appointments |-> Len(appts),
                         scheduled_appointments |-> CountOfStatus(appts, SCHEDULED),
                         cancelled_appointments |-> CountOfStatus(appts, CANCELLED),
                         completed_appointments |-> CountOfStatus(appts, COMPLETED)],
     doctor_performance |-> [d \in Range(DoctorOrder) |->
         [appointments |-> DoctorLoad(appts, d),
          capacity |-> TotalCapacity(d),
          status |-> UtilizationStatus(DoctorLoad(appts, d), TotalCapacity(d))]]]

\* AdvancedAnalyticsTool.execute.  The class defines none of
\* _generate_utilization_analytics, _generate_trend_analytics,
\* _generate_efficiency_analytics, _generate_patient_insights_analytics, and
\* the module defines no logger: for these report types the call raises
\* AttributeError, and the except clause raises NameError in its place.
ExecuteAnalytics(appts, report_type) ==
    IF report_type \in {"utilization", "trends", "efficiency", "patient_insights"}
    THEN [status |-> "raised", message |-> "NameError: name 'logger' is not defined"]
    ELSE GenerateOverviewAnalytics(appts)

-----------------------------------------------------------------------------
(* ComprehensivePatientTool: the record of a patient.  The analytics and the   *)
(* insights that execute derives from the same list of appointments, and the   *)
(* days_from_now and doctor names of the entries, are left out.                *)

\* the sort key (x['date'], x['time']): zero-padded strings compare as numbers
ChronologicalKey(apt) ==
    (((apt.date[1] * 12 + apt.date[2]) * 31 + apt.date[3]) * 24 + apt.time[1]) * 60 + apt.time[2]

\* sorted(..., key=lambda x: (x['date'], x['time'])): stable
RECURSIVE SortChronological(_)
SortChronological(entries) ==
    IF entries = <<>> THEN <<>>
    ELSE LET k == CHOOSE i \in 1..Len(entries) :
                    /\ \A j \in 1..Len(entries) :
                          ChronologicalKey(entries[j]) >= ChronologicalKey(entries[i])
                    /\ \A j \in 1..(i - 1) :
                          ChronologicalKey(entries[j]) > ChronologicalKey(entries[i])
         IN <<entries[k]>> \o
            SortChronological(SubSeq(entries, 1, k - 1)
                              \o SubSeq(entries, k + 1, Len(entries)))

\* _filter_by_date_range for "upcoming" and for a range it does not know
FilterByDateRange(patient_appointments, date_range, today) ==
    IF date_range = "upcoming" THEN
        SelectSeq(patient_appointments,
                  LAMBDA apt : ChronologicalKey([date |-> apt.date, time |-> <<0, 0>>])
                                 >= ChronologicalKey([date |-> today, time |-> <<0, 0>>]))
    ELSE patient_appointments

\* apt_info
AppointmentInfo(apt) ==
    [appointment_id |-> apt.id, doctor_id |-> apt.doctor_id,
     date |-> apt.date, time |-> apt.time, status |-> apt.status]

\* the record built from the filtered appointments of the patient
PatientRecord(req, patient_appointments) ==
    LET OfStatus(status) ==
            SelectSeq([i \in 1..Len(patient_appointments) |->
                          AppointmentInfo(patient_appointments[i])],
                      LAMBDA info : info.status = status)
    IN [status |-> "success",
        patient_id |-> req.patient_id,
        record_summary |->
            [total_appointments |-> Len(patient_appointments),
             scheduled |-> Len(OfStatus(SCHEDULED)),
             cancelled |-> Len(OfStatus(CANCELLED)),
             completed |-> Len(OfStatus(COMPLETED))],
        appointments |->
            [scheduled |-> SortChronological(OfStatus(SCHEDULED)),
             cancelled |-> SortChronological(OfStatus(CANCELLED)),
             completed |-> SortChronological(OfStatus(COMPLETED)),
             chronological_all |->
                 SortChronological(OfStatus(SCHEDULED) \o OfStatus(CANCELLED)
                                   \o OfStatus(COMPLETED))]]

\* ComprehensivePatientTool.execute
ExecutePatientRecords(appts, req) ==
    IF req.patient_id = <<>> THEN [status |-> "missing_patient"]
    ELSE With(SelectSeq(appts, LAMBDA apt : StrLower(apt.patient_id) = StrLower(req.patient_id)),
              LAMBDA found :
                 IF found = <<>> THEN [status |-> "no_records", patient_id |-> req.patient_id]
                 ELSE With(IF req.date_range # "all"
                           THEN FilterByDateRange(found, req.date_range, req.today)
                           ELSE found,
                           LAMBDA in_range :
                              PatientRecord(req,
                                  IF req.appointment_status # "all"
                                  THEN SelectSeq(in_range,
                                          LAMBDA apt : apt.status = req.appointment_status)
                                  ELSE in_range)))

-----------------------------------------------------------------------------
(* money_management: FinanceDB, BudgetTool, PaymentTool, TransactionTool and    *)
(* MoneyManagementSystem.process_query.  Amounts are whole currency units.     *)

\* Budget(...): __post_init__ derives remaining_amount
Budget(total_amount, spent_amount) ==
    [total_amount |-> total_amount,
     spent_amount |-> spent_amount,
     remaining_amount |-> total_amount - spent_amount]

\* FinanceDB.__init__: budgets
InitialBudgets ==
    [department \in {"WardA", "WardB"} |->
        IF department = "WardA" THEN Budget(50000, 15000) ELSE Budget(75000, 25000)]

\* FinanceDB.__init__: accounts.  last_updated counts the datetime.now()
\* stamps the account has received since its construction, which is stamp 0.
InitialAccounts ==
    [account \in {"main", "emergency"} |->
        [balance |-> IF account = "main" THEN 1000000 ELSE 500000,
         last_updated |-> 0]]

\* PaymentTool.run: the Payment appended to finance_db.payments
AppendPayment(pays, amount) ==
    Append(pays, [amount |-> amount, recipient |-> "vendor", status |-> "pending"])

\* TransactionTool.run: the Transaction appended to finance_db.transactions
AppendTransaction(trans, amount, type, department) ==
    Append(trans, [amount |-> amount, type |-> type, category |-> "general",
                   department |-> department, status |-> "pending"])

\* the payment branch of process_query on the store fin =
\* [budgets, accounts, payments, transactions]: the result and the store it leaves
ProcessPayment(fin, amount) ==
    IF amount = 0 THEN
        [res |-> [status |-> "error", response |-> "Please specify payment amount"],
         fin |-> fin]
    ELSE IF fin.accounts["main"].balance < amount THEN
        [res |-> [status |-> "error", response |-> "Insufficient funds in main account"],
         fin |-> fin]
    ELSE
        [res |-> [status |-> "success", response |-> "Payment processed and balance updated"],
         fin |-> [fin EXCEPT !.payments = AppendPayment(@, amount),
                             !.accounts["main"].balance = @ - amount,
                             !.accounts["main"].last_updated = @ + 1]]

\* the recording that charges an expense to the budget and leaves the main
\* account as it is
RecordAndApplyBudgetOnly(fin, type, department, amount) ==
    IF type = "expense" THEN
        [fin EXCEPT !.transactions = AppendTransaction(@, amount, type, department),
                    !.budgets = IF department \in DOMAIN @
                                THEN [@ EXCEPT ![department].spent_amount = @ + amount,
                                               ![department].remaining_amount = @ - amount]
                                ELSE @]
    ELSE
        [fin EXCEPT !.transactions = AppendTransaction(@, amount, type, department),
                    !.accounts["main"].balance = @ + amount]

\* lines 109-130 of process_query: the transaction is recorded, an expense is
\* added to the department's budget and taken from the main account, an
\* income is added to the main account
RecordAndApply(fin, type, department, amount) ==
    IF type = "expense" THEN
        [fin EXCEPT !.transactions = AppendTransaction(@, amount, type, department),
                    !.budgets = IF department \in DOMAIN @
                                THEN [@ EXCEPT ![department].spent_amount = @ + amount,
                                               ![department].remaining_amount = @ - amount]
                                ELSE @,
                    !.accounts["main"].balance = @ - amount]
    ELSE
        [fin EXCEPT !.transactions = AppendTransaction(@, amount, type, department),
                    !.accounts["main"].balance = @ + amount]

\* the transaction branch that records a transaction of any amount
ProcessTransactionAnyAmount(fin, type, department, amount) ==
    IF department # "GENERAL" /\ department \notin DOMAIN fin.budgets THEN
        [res |-> [status |-> "error", response |-> "Department not found"],
         fin |-> fin]
    ELSE
        [res |-> [status |-> "success", response |-> "Transaction recorded and budgets updated"],
         fin |-> RecordAndApply(fin, type, department, amount)]

\* the transaction branch of process_query
ProcessTransaction(fin, type, department, amount) ==
    IF amount = 0 THEN
        [res |-> [status |-> "error", response |-> "Please specify an amount"],
         fin |-> fin]
    ELSE IF department # "GENERAL" /\ department \notin DOMAIN fin.budgets THEN
        [res |-> [status |-> "error", response |-> "Department not found"],
         fin |-> fin]
    ELSE
        [res |-> [status |-> "success", response |-> "Transaction recorded and budgets updated"],
         fin |-> RecordAndApply(fin, type, department, amount)]

\* BudgetTool.run for an unknown department and for action "check"
BudgetCheck(buds, department) ==
    IF department \notin DOMAIN buds THEN
        [status |-> "error", message |-> "No budget"]
    ELSE
        [status |-> "success",
         data |-> [total |-> buds[department].total_amount,
                   spent |-> buds[department].spent_amount,
                   remaining |-> buds[department].remaining_amount]]

-----------------------------------------------------------------------------
(* ward_allocation: HospitalDB.wards and the tools' run.  A ward is its        *)
(* capacity and its beds, bed i being <name>_bed<i>; a bed is the patient_id   *)
(* it holds, "" for None.  A result of status "raised" stands for a call that  *)
(* raised the exception named in its message instead of returning.             *)

\* HospitalDB.__init__: patients
Patients == {"P001", "P002", "P003"}

\* HospitalDB.__init__: wards and their beds, all unoccupied
InitialWards ==
    [name \in {"WardA", "WardB"} |->
        [capacity |-> IF name = "WardA" THEN 2 ELSE 3,
         beds |-> [i \in 1..(IF name = "WardA" THEN 2 ELSE 3) |-> ""]]]

\* Ward.available_beds
AvailableBeds(ward) == {i \in DOMAIN ward.beds : ward.beds[i] = ""}

\* Ward.occupancy
Occupancy(ward) == Cardinality({i \in DOMAIN ward.beds : ward.beds[i] # ""})

\* a call of a method that class Ward does not define
NoWardMethod(method) ==
    [status |-> "raised",
     message |-> "AttributeError: 'Ward' object has no attribute '" \o method \o "'"]

\* TransferTool.run
TransferRun(ws, input_data) ==
    IF input_data.patient_id = "" \/ input_data.from_ward = "" \/ input_data.to_ward = "" THEN
        [status |-> "error", message |-> "Missing patient_id, from_ward, or to_ward"]
    ELSE IF \/ input_data.from_ward \notin DOMAIN ws
            \/ input_data.to_ward \notin DOMAIN ws
            \/ input_data.patient_id \notin Patients THEN
        [status |-> "error", message |-> "Invalid ward or patient"]
    ELSE NoWardMethod("has_patient")

\* AssignmentTool.run
AssignmentRun(ws, input_data) ==
    IF input_data.patient_id = "" \/ input_data.ward_name = "" THEN
        [status |-> "error", message |-> "Missing patient_id or ward_name"]
    ELSE IF input_data.patient_id \notin Patients THEN
        [status |-> "error", message |-> "Patient not found"]
    ELSE IF input_data.ward_name \notin DOMAIN ws THEN
        [status |-> "error", message |-> "Ward not found"]
    ELSE NoWardMethod("assign_patient")

\* DischargeTool.run
DischargeRun(ws, input_data) ==
    IF input_data.patient_id = "" THEN
        [status |-> "error", message |-> "Missing patient_id"]
    ELSE IF input_data.patient_id \notin Patients THEN
        [status |-> "error", message |-> "Patient not found"]
    ELSE IF DOMAIN ws # {} THEN NoWardMethod("has_patient")
    ELSE [status |-> "error", message |-> "Patient is not assigned to any ward"]

-----------------------------------------------------------------------------
(* hospital_inventory: InventoryDBTool.  An item is its item_id, quantity,     *)
(* reorder_threshold and usage_history; name and expiry_date, which no method  *)
(* of the claims reads, are left out.  A method's outcome is the value it      *)
(* returns and the inventory it leaves.                                        *)

\* InventoryDBTool.__init__: _inventory
InitialInventory ==
    << [item_id |-> "med_001", quantity |-> 20, reorder_threshold |-> 30,
        usage_history |-> <<15, 18, 22, 20>>],
       [item_id |-> "equip_002", quantity |-> 50, reorder_threshold |-> 40,
        usage_history |-> <<45, 50, 48, 52>>] >>

\* get_item_by_id: the index of the first item of that id, 0 for KeyError
GetItemById(inv, item_id) ==
    LET Hit(i) == inv[i].item_id = item_id
    IN IF \E i \in 1..Len(inv) : Hit(i)
       THEN CHOOSE i \in 1..Len(inv) : Hit(i) /\ \A j \in 1..(i - 1) : ~Hit(j)
       ELSE 0

\* update_stock
UpdateStock(inv, item_id, new_quantity) ==
    IF GetItemById(inv, item_id) = 0 THEN [res |-> FALSE, inventory |-> inv]
    ELSE [res |-> TRUE,
          inventory |-> [inv EXCEPT ![GetItemById(inv, item_id)].quantity = new_quantity]]

\* record_usage
RecordUsage(inv, item_id, used_amount) ==
    IF GetItemById(inv, item_id) = 0 THEN [res |-> FALSE, inventory |-> inv]
    ELSE [res |-> TRUE,
          inventory |-> [inv EXCEPT ![GetItemById(inv, item_id)].quantity = @ - used_amount,
                                    ![GetItemById(inv, item_id)].usage_history =
                                        Append(@, used_amount)]]

\* list_low_stock: the item_ids of the items below their threshold
ListLowStock(inv) ==
    LET low == SelectSeq(inv, LAMBDA item : item.quantity < item.reorder_threshold)
    IN [i \in 1..Len(low) |-> low[i].item_id]

-----------------------------------------------------------------------------
(* Requests *)

J1 == <<"J","1">>

\* the value of datetime.now().date() seen by a call
InJune == <<2025, 6, 8>>
AfterJune == <<2025, 6, 20>>

BookingRequest(patient_id, doctor_id, specialty, date, time, auto_reschedule, today) ==
    [patient_id |-> patient_id, doctor_id |-> doctor_id, specialty |-> specialty,
     date |-> date, time |-> time, auto_reschedule |-> auto_reschedule, today |-> today]

\* requests for a slot of dr_jones on the last day of the schedule
SlotRequests ==
    {BookingRequest(J1, "dr_jones", <<>>, <<2025,6,8>>, time, auto, InJune) :
        time \in {<<14,0>>, <<16,0>>},
        auto \in BOOLEAN}

\* requests that validation or auto-completion has to deal with
OtherRequests ==
    {BookingRequest(<<>>, "dr_jones", <<>>, <<2025,6,8>>, <<14,0>>, TRUE, InJune),
     BookingRequest(J1, "dr_who", <<>>, <<2025,6,8>>, <<14,0>>, TRUE, InJune),
     BookingRequest(J1, "dr_who", <<>>, <<>>, <<>>, TRUE, InJune),
     BookingRequest(J1, "", <<>>, <<2025,6,8>>, <<14,0>>, TRUE, InJune),
     BookingRequest(J1, "dr_jones", <<>>, <<2025,6,9>>, <<14,0>>, TRUE, InJune),
     BookingRequest(J1, "dr_jones", <<>>, <<2025,6,8>>, <<12,0>>, TRUE, InJune),
     BookingRequest(J1, "dr_jones", <<>>, <<2025,6,8>>, <<>>, FALSE, InJune),
     BookingRequest(J1, "dr_jones", <<>>, <<>>, <<16,0>>, FALSE, InJune),
     BookingRequest(J1, "dr_jones", <<>>, <<>>, <<16,0>>, FALSE, AfterJune),
     BookingRequest(J1, "", <<"b","o","n","e">>, <<2025,6,8>>, <<14,0>>, FALSE, InJune)}

ReserveRequests == SlotRequests \cup OtherRequests

CancellationRequest(appointment_id, patient_id, doctor_id, date) ==
    [appointment_id |-> appointment_id, patient_id |-> patient_id,
     doctor_id |-> doctor_id, date |-> date]

CancelRequests ==
    {CancellationRequest(FormatId(n), <<>>, "", <<>>) : n \in 1..2}
    \cup {CancellationRequest(<<"a","p","t","0","0","0","2">>, <<>>, "", <<>>),
          CancellationRequest(<<"A","P","T","9">>, <<>>, "", <<>>),
          CancellationRequest(<<>>, J1, "", <<>>),
          CancellationRequest(<<>>, <<>>, "dr_jones", <<2025,6,8>>)}

AvailabilityRequest(doctor_id, date, specialty, today) ==
    [doctor_id |-> doctor_id, date |-> date, specialty |-> specialty, today |-> today]

AvailabilityRequests ==
    {AvailabilityRequest("dr_jones", <<2025,6,8>>, <<>>, InJune),
     AvailabilityRequest("dr_jones", <<2025,6,9>>, <<>>, InJune),
     AvailabilityRequest("dr_jones", <<>>, <<>>, <<2025,6,7>>),
     AvailabilityRequest("dr_who", <<2025,6,8>>, <<>>, InJune),
     AvailabilityRequest("", <<2025,6,8>>, <<"o","r","t","h","o">>, InJune),
     AvailabilityRequest("", <<>>, <<>>, InJune)}

-----------------------------------------------------------------------------
(* Calls served one at a time *)

Threads == 1..NumThreads

Idle == [op |-> "none"]

Init ==
    /\ appointments = <<>>
    /\ appointment_counter = 1
    /\ last = Idle
    /\ pc = [t \in Threads |-> "idle"]
    /\ frame = [t \in Threads |-> Idle]
    /\ budgets = InitialBudgets
    /\ accounts = InitialAccounts
    /\ payments = <<>>
    /\ transactions = <<>>
    /\ wards = InitialWards
    /\ inventory = InitialInventory
    /\ lock = 0
    /\ calls = [t \in Threads |-> 0]

\* book_appointment
Reserve(req) ==
    /\ \E out \in {ExecuteBooking(appointments, appointment_counter, req)} :
          /\ Len(out.appointments) <= MaxAppts
          /\ appointments' = out.appointments
          /\ appointment_counter' = out.counter
          /\ last' = [op |-> "reserve", req |-> req, res |-> out.res]
    /\ UNCHANGED <<pc, frame, finance_db, wards, inventory, lock, calls>>

\* cancel_appointment
Cancel(req) ==
    /\ \E out \in {ExecuteCancellation(appointments, req)} :
          /\ appointments' = out.appointments
          /\ last' = [op |-> "cancel", req |-> req, res |-> out.res]
    /\ UNCHANGED <<appointment_counter, pc, frame, finance_db, wards, inventory, lock, calls>>

\* check_availability
CheckAvailability(req) ==
    /\ last' = [op |-> "availability", req |-> req,
                res |-> ExecuteAvailability(appointments, req)]
    /\ UNCHANGED <<appointments, appointment_counter, pc, frame, finance_db, wards, inventory, lock, calls>>

Next ==
    \/ \E req \in ReserveRequests : Reserve(req)
    \/ \E req \in CancelRequests : Cancel(req)
    \/ \E req \in AvailabilityRequests : CheckAvailability(req)

Spec == Init /\ [][Next]_vars

-----------------------------------------------------------------------------
(* Calls served one at a time that fill dr_jones's last two days: the same     *)
(* handlers under fewer distinct requests, so that a whole day can fill up     *)

FillRequests ==
    {BookingRequest(J1, "dr_jones", <<>>, <<2025,6,7>>, <<14,0>>, TRUE, InJune),
     BookingRequest(J1, "dr_jones", <<>>, <<2025,6,7>>, <<16,0>>, TRUE, InJune),
     BookingRequest(J1, "dr_jones", <<>>, <<2025,6,8>>, <<16,0>>, TRUE, InJune)}

\* cancellations by id and by criteria: a patient id in another case, a
\* patient with a date, a doctor alone, a doctor nobody booked
FillCancelRequests ==
    {CancellationRequest(FormatId(1), <<>>, "", <<>>),
     CancellationRequest(<<>>, <<"j">>, "", <<>>),
     CancellationRequest(<<>>, J1, "", <<2025,6,8>>),
     CancellationRequest(<<>>, <<>>, "dr_jones", <<>>),
     CancellationRequest(<<>>, <<>>, "dr_smith", <<>>)}

FillReserve(req) ==
    /\ \E out \in {ExecuteBooking(appointments, appointment_counter, req)} :
          /\ Len(out.appointments) <= MaxFill
          /\ appointments' = out.appointments
          /\ appointment_counter' = out.counter
          /\ last' = [op |-> "reserve", req |-> req, res |-> out.res]
    /\ UNCHANGED <<pc, frame, finance_db, wards, inventory, lock, calls>>

FillCancel(req) ==
    /\ \E out \in {ExecuteCancellation(appointments, req)} :
          /\ appointments' = out.appointments
          /\ last' = [op |-> "cancel", req |-> req, res |-> out.res]
    /\ UNCHANGED <<appointment_counter, pc, frame, finance_db, wards, inventory, lock, calls>>

NextFill ==
    \/ \E req \in FillRequests : FillReserve(req)
    \/ \E req \in FillCancelRequests : FillCancel(req)

SpecFill == Init /\ [][NextFill]_vars

-----------------------------------------------------------------------------
(* Calls served one at a time on dr_smith's 2025-06-07: the same handlers      *)
(* under the requests of one day of one doctor                                 *)

SmithRequests ==
    {BookingRequest(J1, "dr_smith", <<>>, <<2025,6,7>>, <<9,0>>, auto, InJune) :
        auto \in BOOLEAN}
    \cup {BookingRequest(J1, "dr_smith", <<>>, <<2025,6,7>>, time, TRUE, InJune) :
            time \in {<<10,0>>, <<14,0>>}}

SmithCancelRequests ==
    {CancellationRequest(FormatId(n), <<>>, "", <<>>) : n \in 1..2}
    \cup {CancellationRequest(<<"a","p","t","0","0","0">>, <<>>, "", <<>>),
          CancellationRequest(<<"A","P","T","0","0","0","1","2">>, <<>>, "", <<>>),
          CancellationRequest(<<"A","P","T","0","0","0">>, J1, "dr_smith", <<2025,6,7>>)}

SmithReserve(req) ==
    /\ \E out \in {ExecuteBooking(appointments, appointment_counter, req)} :
          /\ Len(out.appointments) <= MaxSmith
          /\ appointments' = out.appointments
          /\ appointment_counter' = out.counter
          /\ last' = [op |-> "reserve", req |-> req, res |-> out.res]
    /\ UNCHANGED <<pc, frame, finance_db, wards, inventory, lock, calls>>

SmithCancel(req) ==
    /\ \E out \in {ExecuteCancellation(appointments, req)} :
          /\ appointments' = out.appointments
          /\ last' = [op |-> "cancel", req |-> req, res |-> out.res]
    /\ UNCHANGED <<appointment_counter, pc, frame, finance_db, wards, inventory, lock, calls>>

NextSmith ==
    \/ \E req \in SmithRequests : SmithReserve(req)
    \/ \E req \in SmithCancelRequests : SmithCancel(req)

SpecSmith == Init /\ [][NextSmith]_vars

-----------------------------------------------------------------------------
(* Calls served one at a time that load dr_smith's schedule hour by hour,      *)
(* with the doctor search and the analytics report looking on                  *)

\* the reserve that takes dr_smith's next free hour from 2025-06-03 09:00 on
ViewsRequest ==
    BookingRequest(J1, "dr_smith", <<>>, <<2025,6,3>>, <<9,0>>, TRUE, <<2025,6,3>>)

DoctorSearchRequest(specialty, doctor_name, today) ==
    [specialty |-> specialty, doctor_name |-> doctor_name, today |-> today]

\* searches by specialty (a keyword, a word no doctor matches), by name (a
\* doctor's, nobody's) and for all doctors
DoctorSearchRequests ==
    {DoctorSearchRequest(<<"H","e","a","r","t">>, <<>>, <<2025,6,3>>),
     DoctorSearchRequest(<<"s","k","i","n">>, <<>>, <<2025,6,3>>),
     DoctorSearchRequest(<<>>, <<"D","r","."," ","S","m","i","t","h">>, <<2025,6,3>>),
     DoctorSearchRequest(<<>>, <<"h","o","u","s","e">>, <<2025,6,3>>),
     DoctorSearchRequest(<<>>, <<>>, <<2025,6,3>>),
     DoctorSearchRequest(<<"H","e","a","r","t">>, <<>>, <<2025,5,20>>),
     DoctorSearchRequest(<<"H","e","a","r","t">>, <<>>, <<2025,5,27>>),
     DoctorSearchRequest(<<"H","e","a","r","t">>, <<>>, <<2025,6,9>>)}

\* availability of dr_smith without a date, asked on a day two weeks before
\* the doctor's first day, one week before it, on it, and after the last
ViewsAvailabilityRequests ==
    {AvailabilityRequest("dr_smith", <<>>, <<>>, today) :
        today \in {<<2025,5,20>>, <<2025,5,27>>, <<2025,6,3>>, <<2025,6,9>>}}

ReportTypes == {"overview", "utilization", "summary"}

ViewsReserve ==
    /\ \E out \in {ExecuteBooking(appointments, appointment_counter, ViewsRequest)} :
          /\ Len(out.appointments) <= MaxViews
          /\ appointments' = out.appointments
          /\ appointment_counter' = out.counter
          /\ last' = [op |-> "reserve", req |-> ViewsRequest, res |-> out.res]
    /\ UNCHANGED <<pc, frame, finance_db, wards, inventory, lock, calls>>

ViewsCancel ==
    /\ \E out \in {ExecuteCancellation(appointments,
                       CancellationRequest(FormatId(1), <<>>, "", <<>>))} :
          /\ appointments' = out.appointments
          /\ last' = [op |-> "cancel",
                      req |-> CancellationRequest(FormatId(1), <<>>, "", <<>>),
                      res |-> out.res]
    /\ UNCHANGED <<appointment_counter, pc, frame, finance_db, wards, inventory, lock, calls>>

\* check_availability
ViewsAvailability(req) ==
    /\ last' = [op |-> "availability", req |-> req,
                res |-> ExecuteAvailability(appointments, req)]
    /\ UNCHANGED <<appointments, appointment_counter, pc, frame, finance_db, wards, inventory, lock, calls>>

\* the record of the patient of ViewsRequest under another case, whole, from a
\* day on and by status; of a patient without appointments; of no patient
PatientRecordsRequests ==
    {[patient_id |-> patient_id, date_range |-> date_range,
      appointment_status |-> appointment_status, today |-> <<2025,6,4>>] :
        patient_id \in {<<"j","1">>, <<"Q","9">>, <<>>},
        date_range \in {"all", "upcoming"},
        appointment_status \in {"all", "cancelled"}}

\* patient_records
PatientRecords(req) ==
    /\ last' = [op |-> "patient_records", req |-> req,
                res |-> ExecutePatientRecords(appointments, req)]
    /\ UNCHANGED <<appointments, appointment_counter, pc, frame, finance_db, wards, inventory, lock, calls>>

\* find_doctors
DoctorSearch(req) ==
    /\ last' = [op |-> "doctor_search", req |-> req,
                res |-> ExecuteDoctorSearch(appointments, req)]
    /\ UNCHANGED <<appointments, appointment_counter, pc, frame, finance_db, wards, inventory, lock, calls>>

\* the report that drops the CANCELLED appointments from the store
AnalyticsPurging(report_type) ==
    /\ last' = [op |-> "analytics", req |-> [report_type |-> report_type],
                res |-> ExecuteAnalytics(appointments, report_type)]
    /\ appointments' = SelectSeq(appointments, LAMBDA apt : apt.status # CANCELLED)
    /\ UNCHANGED <<appointment_counter, pc, frame, finance_db, wards, inventory, lock, calls>>

\* system_analytics
Analytics(report_type) ==
    /\ last' = [op |-> "analytics", req |-> [report_type |-> report_type],
                res |-> ExecuteAnalytics(appointments, report_type)]
    /\ UNCHANGED <<appointments, appointment_counter, pc, frame, finance_db, wards, inventory, lock, calls>>

NextViews ==
    \/ ViewsReserve
    \/ ViewsCancel
    \/ \E req \in ViewsAvailabilityRequests : ViewsAvailability(req)
    \/ \E req \in DoctorSearchRequests : DoctorSearch(req)
    \/ \E req \in PatientRecordsRequests : PatientRecords(req)
    \/ \E report_type \in ReportTypes : Analytics(report_type)

SpecViews == Init /\ [][NextViews]_vars

-----------------------------------------------------------------------------
(* Calls served one at a time that name a specialty in free text: reserve with *)
(* auto-selection of the doctor, availability by specialty and doctor search   *)

\* the free-text specialties of the requests
SpecialtyKeywords ==
    {<<"h","e","a","r","t">>,
     <<"c","a","r","d","i","a","c">>,
     <<"c","a","r","d","i","o","l","o","g","i","s","t">>,
     <<"c","a","r","d","i","o","v","a","s","c","u","l","a","r">>,
     <<"b","r","a","i","n">>,
     <<"n","e","r","v","e">>,
     <<"n","e","u","r","o">>,
     <<"n","e","r","v","o","u","s"," ","s","y","s","t","e","m">>,
     <<"b","o","n","e">>,
     <<"j","o","i","n","t">>,
     <<"o","r","t","h","o","p","e","d","i","c">>,
     <<"m","u","s","c","u","l","o","s","k","e","l","e","t","a","l">>,
     <<"g","e","n","e","r","a","l">>,
     <<"f","a","m","i","l","y">>,
     <<"p","r","i","m","a","r","y">>,
     <<"g","p">>}

\* book_appointment with a specialty and no doctor, date or time
KeywordReserve(specialty) ==
    /\ \E req \in {BookingRequest(J1, "", specialty, <<>>, <<>>, TRUE, <<2025,6,3>>)} :
       \E out \in {ExecuteBooking(appointments, appointment_counter, req)} :
          /\ Len(out.appointments) <= MaxKeywordAppts
          /\ appointments' = out.appointments
          /\ appointment_counter' = out.counter
          /\ last' = [op |-> "reserve", req |-> req, res |-> out.res]
    /\ UNCHANGED <<pc, frame, finance_db, wards, inventory, lock, calls>>

\* check_availability with a specialty and no doctor
KeywordAvailability(specialty) ==
    /\ \E req \in {AvailabilityRequest("", <<2025,6,3>>, specialty, <<2025,6,3>>)} :
          last' = [op |-> "availability", req |-> req,
                   res |-> ExecuteAvailability(appointments, req)]
    /\ UNCHANGED <<appointments, appointment_counter, pc, frame, finance_db, wards, inventory, lock, calls>>

\* find_doctors with a specialty
KeywordSearch(specialty) ==
    /\ \E req \in {DoctorSearchRequest(specialty, <<>>, <<2025,6,3>>)} :
          last' = [op |-> "doctor_search", req |-> req,
                   res |-> ExecuteDoctorSearch(appointments, req)]
    /\ UNCHANGED <<appointments, appointment_counter, pc, frame, finance_db, wards, inventory, lock, calls>>

NextKeywords ==
    \/ \E specialty \in SpecialtyKeywords : KeywordReserve(specialty)
    \/ \E specialty \in SpecialtyKeywords : KeywordAvailability(specialty)
    \/ \E specialty \in SpecialtyKeywords : KeywordSearch(specialty)

SpecKeywords == Init /\ [][NextKeywords]_vars

-----------------------------------------------------------------------------
(* Concurrent callers.  Each thread runs one execute at a time; a step is one  *)
(* helper's read of the store or one store method, which is where the store    *)
(* lock is taken and released.  Nothing holds the lock from a read to the      *)
(* following write.  The six steps say nothing of lock and calls: in SpecConc  *)
(* a step is the whole locked region, in SpecLock the lock is taken in a step  *)
(* of its own.                                                                 *)

ConcReserveRequests ==
    {BookingRequest(J1, "dr_jones", <<>>, <<2025,6,8>>, <<16,0>>, auto, InJune) : auto \in BOOLEAN}
    \cup {BookingRequest(J1, "dr_jones", <<>>, <<2025,6,9>>, <<16,0>>, TRUE, InJune)}

ConcCancelRequests ==
    {CancellationRequest(FormatId(1), <<>>, "", <<>>)}

\* threads between the start of a booking and its add_appointment
InFlight == {t \in Threads : pc[t] \in {"conflicts", "add"}}

\* execute up to the validation: _auto_complete_booking_info and
\* _validate_booking_parameters
BookStart(t, req) ==
    /\ pc[t] = "idle"
    /\ Len(appointments) + Cardinality(InFlight) < MaxConcAppts
    /\ \E completion \in {AutoCompleteBookingInfo(appointments, req)} :
          IF completion.status # "ready" THEN
              /\ frame' = [frame EXCEPT ![t] = [op |-> "reserve", req |-> req, res |-> completion]]
              /\ pc' = pc
          ELSE \E validation \in {ValidateBookingParameters(completion.patient_id,
                                      completion.doctor_id, completion.date, completion.time)} :
              IF validation.status # "valid" THEN
                  /\ frame' = [frame EXCEPT ![t] = [op |-> "reserve", req |-> req, res |-> validation]]
                  /\ pc' = pc
              ELSE
                  /\ frame' = [frame EXCEPT ![t] =
                                  [op |-> "reserve", req |-> req,
                                   patient_id |-> completion.patient_id,
                                   doctor_id |-> completion.doctor_id,
                                   date |-> completion.date,
                                   time |-> completion.time,
                                   auto_completed |-> completion.auto_completed]]
                  /\ pc' = [pc EXCEPT ![t] = "conflicts"]
    /\ UNCHANGED <<appointments, appointment_counter, last, finance_db, wards, inventory>>

\* the conflict check that takes the next id before the appointment is added
BookConflictsCounting(t) ==
    /\ pc[t] = "conflicts"
    /\ LET f == frame[t]
           conflict == HandleBookingConflicts(appointments, f.doctor_id, f.date, f.time,
                                              f.req.auto_reschedule)
       IN IF conflict.status = "conflict" /\ ~f.req.auto_reschedule THEN
              /\ frame' = [frame EXCEPT ![t] = [op |-> "reserve", req |-> f.req, res |-> conflict]]
              /\ pc' = [pc EXCEPT ![t] = "idle"]
          ELSE
              /\ frame' = [frame EXCEPT ![t] =
                              [f EXCEPT !.date = IF conflict.status = "rescheduled"
                                                 THEN conflict.new_date ELSE f.date,
                                        !.time = IF conflict.status = "rescheduled"
                                                 THEN conflict.new_time ELSE f.time]
                              @@ [conflict_status |-> conflict.status]]
              /\ pc' = [pc EXCEPT ![t] = "add"]
    /\ appointment_counter' = appointment_counter + 1
    /\ UNCHANGED <<appointments, last, finance_db, wards, inventory>>

\* _handle_booking_conflicts on the store as it is now, and the branch on its result
BookConflicts(t) ==
    /\ pc[t] = "conflicts"
    /\ LET f == frame[t]
           conflict == HandleBookingConflicts(appointments, f.doctor_id, f.date, f.time,
                                              f.req.auto_reschedule)
       IN IF conflict.status = "conflict" /\ ~f.req.auto_reschedule THEN
              /\ frame' = [frame EXCEPT ![t] = [op |-> "reserve", req |-> f.req, res |-> conflict]]
              /\ pc' = [pc EXCEPT ![t] = "idle"]
          ELSE
              /\ frame' = [frame EXCEPT ![t] =
                              [f EXCEPT !.date = IF conflict.status = "rescheduled"
                                                 THEN conflict.new_date ELSE f.date,
                                        !.time = IF conflict.status = "rescheduled"
                                                 THEN conflict.new_time ELSE f.time]
                              @@ [conflict_status |-> conflict.status]]
              /\ pc' = [pc EXCEPT ![t] = "add"]
    /\ UNCHANGED <<appointments, appointment_counter, last, finance_db, wards, inventory>>

\* hospital_db.add_appointment(appointment) and the confirmation
BookAdd(t) ==
    /\ pc[t] = "add"
    /\ LET f == frame[t]
           added == AddAppointment(appointments, appointment_counter,
                        [id |-> <<>>,
                         patient_id |-> f.patient_id,
                         doctor_id |-> f.doctor_id,
                         date |-> f.date,
                         time |-> f.time,
                         status |-> SCHEDULED])
       IN /\ appointments' = added.appointments
          /\ appointment_counter' = added.counter
          /\ frame' = [frame EXCEPT ![t] =
                          [op |-> "reserve", req |-> f.req,
                           res |-> [status |-> "success",
                                    appointment |-> [id |-> added.id,
                                                     patient_id |-> f.patient_id,
                                                     doctor_id |-> f.doctor_id,
                                                     date |-> f.date,
                                                     time |-> f.time],
                                    rescheduled |-> (f.conflict_status = "rescheduled"),
                                    auto_completed |-> f.auto_completed]]]
    /\ pc' = [pc EXCEPT ![t] = "idle"]
    /\ UNCHANGED <<last, finance_db, wards, inventory>>

\* cancel_appointment up to the choice of appointment_to_cancel
CancelStart(t, req) ==
    /\ pc[t] = "idle"
    /\ LET search == FindToCancel(appointments, req)
       IN IF ~search.found THEN
              /\ frame' = [frame EXCEPT ![t] = [op |-> "cancel", req |-> req, res |-> search.res]]
              /\ pc' = pc
          ELSE
              /\ frame' = [frame EXCEPT ![t] =
                              [op |-> "cancel", req |-> req, target |-> appointments[search.index]]]
              /\ pc' = [pc EXCEPT ![t] = "update"]
    /\ UNCHANGED <<appointments, appointment_counter, last, finance_db, wards, inventory>>

\* hospital_db.update_appointment_status(appointment_to_cancel.id, CANCELLED)
CancelUpdate(t) ==
    /\ pc[t] = "update"
    /\ \E updated \in {UpdateAppointmentStatus(appointments, frame[t].target.id, CANCELLED)} :
          /\ appointments' = updated.appointments
          /\ IF updated.success THEN
                 /\ frame' = frame
                 /\ pc' = [pc EXCEPT ![t] = "suggest"]
             ELSE
                 /\ frame' = [frame EXCEPT ![t] =
                                 [op |-> "cancel", req |-> frame[t].req,
                                  res |-> CancellationResponse(frame[t].target, FALSE, <<>>)]]
                 /\ pc' = [pc EXCEPT ![t] = "idle"]
    /\ UNCHANGED <<appointment_counter, last, finance_db, wards, inventory>>

\* _generate_rebooking_suggestions on the appointments as they are now, and
\* the response
CancelSuggest(t) ==
    /\ pc[t] = "suggest"
    /\ \E suggestions \in {GenerateRebookingSuggestions(appointments, frame[t].target)} :
          frame' = [frame EXCEPT ![t] =
                       [op |-> "cancel", req |-> frame[t].req,
                        res |-> CancellationResponse(frame[t].target, TRUE, suggestions)]]
    /\ pc' = [pc EXCEPT ![t] = "idle"]
    /\ UNCHANGED <<appointments, appointment_counter, last, finance_db, wards, inventory>>

NextConc ==
    \/ \E t \in Threads : \E req \in ConcReserveRequests :
          BookStart(t, req) /\ UNCHANGED <<lock, calls>>
    \/ \E t \in Threads : BookConflicts(t) /\ UNCHANGED <<lock, calls>>
    \/ \E t \in Threads : BookAdd(t) /\ UNCHANGED <<lock, calls>>
    \/ \E t \in Threads : \E req \in ConcCancelRequests :
          CancelStart(t, req) /\ UNCHANGED <<lock, calls>>
    \/ \E t \in Threads : CancelUpdate(t) /\ UNCHANGED <<lock, calls>>
    \/ \E t \in Threads : CancelSuggest(t) /\ UNCHANGED <<lock, calls>>

SpecConc == Init /\ [][NextConc]_vars

-----------------------------------------------------------------------------
(* The same callers with the store lock taken in a step of its own.  Every     *)
(* read of hospital_db.doctors or hospital_db.appointments and every           *)
(* add_appointment and update_appointment_status runs "with self._lock": the   *)
(* thread waits until no thread holds the lock, takes it, runs the region and  *)
(* gives it back.  No region calls anything that waits, and there is no other  *)
(* lock.  A thread starts MaxLockCalls calls at most.                          *)

\* with self._lock: the acquire, by a thread about to start a call or in one
LockAcquire(t) ==
    /\ lock = 0
    /\ pc[t] = "idle" => calls[t] < MaxLockCalls
    /\ lock' = t
    /\ calls' = IF pc[t] = "idle" THEN [calls EXCEPT ![t] = @ + 1] ELSE calls
    /\ UNCHANGED <<appointments, appointment_counter, last, pc, frame,
                   finance_db, wards, inventory>>

\* the reads of book_appointment up to its validation, and the release
LockedBookStart(t, req) ==
    /\ lock = t
    /\ BookStart(t, req)
    /\ lock' = 0
    /\ UNCHANGED calls

\* the reads of cancel_appointment up to its choice, and the release
LockedCancelStart(t, req) ==
    /\ lock = t
    /\ CancelStart(t, req)
    /\ lock' = 0
    /\ UNCHANGED calls

\* the read of _handle_booking_conflicts, and the release
LockedBookConflicts(t) ==
    /\ lock = t
    /\ BookConflicts(t)
    /\ lock' = 0
    /\ UNCHANGED calls

\* add_appointment that waits inside its region for the lock it holds, as it
\* would with a lock that is not reentrant
LockedBookAddWaiting(t) ==
    /\ lock = t
    /\ pc[t] = "add"
    /\ UNCHANGED vars

\* add_appointment, and the release
LockedBookAdd(t) ==
    /\ lock = t
    /\ BookAdd(t)
    /\ lock' = 0
    /\ UNCHANGED calls

\* update_appointment_status, and the release
LockedCancelUpdate(t) ==
    /\ lock = t
    /\ CancelUpdate(t)
    /\ lock' = 0
    /\ UNCHANGED calls

\* the reads of _generate_rebooking_suggestions, and the release
LockedCancelSuggest(t) ==
    /\ lock = t
    /\ CancelSuggest(t)
    /\ lock' = 0
    /\ UNCHANGED calls

\* the steps of thread t other than the start of a new call
ThreadStep(t) ==
    \/ pc[t] # "idle" /\ LockAcquire(t)
    \/ \E req \in ConcReserveRequests : LockedBookStart(t, req)
    \/ \E req \in ConcCancelRequests : LockedCancelStart(t, req)
    \/ LockedBookConflicts(t)
    \/ LockedBookAdd(t)
    \/ LockedCancelUpdate(t)
    \/ LockedCancelSuggest(t)

NextLock ==
    \/ \E t \in Threads : LockAcquire(t)
    \/ \E t \in Threads : \E req \in ConcReserveRequests : LockedBookStart(t, req)
    \/ \E t \in Threads : \E req \in ConcCancelRequests : LockedCancelStart(t, req)
    \/ \E t \in Threads : LockedBookConflicts(t)
    \/ \E t \in Threads : LockedBookAdd(t)
    \/ \E t \in Threads : LockedCancelUpdate(t)
    \/ \E t \in Threads : LockedCancelSuggest(t)

SpecLock == Init /\ [][NextLock]_vars

\* every thread that can run is run in the end: a thread that holds the lock
\* or could take it for the call it is in does not wait for ever
SpecLockFair == SpecLock /\ \A t \in Threads : WF_vars(ThreadStep(t))

-----------------------------------------------------------------------------
(* The ledger.  In SpecLedger process_query is served one query at a time.  In *)
(* SpecBudget BudgetTool.run is called by several threads, next to expense     *)
(* queries; finance_db has no lock, so a step of BudgetTool.run is one read or *)
(* one write of a Budget field.                                                *)

\* the amounts a query names: none, and two that together exceed the balance
QueryAmounts == {0, 400000, 700000}

\* the department a query names, after its conversion to the budgets' keys
QueryDepartments == {"GENERAL", "WardA", "WardC"}

\* the amounts and departments of the BudgetTool calls
BudgetAmounts == {1000, 2000}
BudgetDepartments == {"WardA", "WardC"}

\* finance_db as one value
Finance ==
    [budgets |-> budgets, accounts |-> accounts,
     payments |-> payments, transactions |-> transactions]

\* process_query, payment branch
Payment(amount) ==
    /\ \E out \in {ProcessPayment(Finance, amount)} :
          /\ Len(out.fin.payments) + Len(out.fin.transactions) <= MaxLedger
          /\ budgets' = out.fin.budgets
          /\ accounts' = out.fin.accounts
          /\ payments' = out.fin.payments
          /\ transactions' = out.fin.transactions
          /\ last' = [op |-> "payment", req |-> [amount |-> amount], res |-> out.res]
    /\ UNCHANGED <<hospital_db, pc, frame, wards, inventory, lock, calls>>

\* process_query, transaction branch
Transaction(type, department, amount) ==
    /\ \E out \in {ProcessTransaction(Finance, type, department, amount)} :
          /\ Len(out.fin.payments) + Len(out.fin.transactions) <= MaxLedger
          /\ budgets' = out.fin.budgets
          /\ accounts' = out.fin.accounts
          /\ payments' = out.fin.payments
          /\ transactions' = out.fin.transactions
          /\ last' = [op |-> "transaction",
                      req |-> [type |-> type, department |-> department, amount |-> amount],
                      res |-> out.res]
    /\ UNCHANGED <<hospital_db, pc, frame, wards, inventory, lock, calls>>

\* the BudgetTool calls thread t has made
CallsMade(t) == IF frame[t].op = "budget" THEN frame[t].calls ELSE 0

\* BudgetTool.run up to its first write: the lookup, the whole of action
\* "check", and for "update" the read of spent_amount that += starts with
BudgetStart(t, department, action, amount) ==
    /\ pc[t] = "idle"
    /\ CallsMade(t) < MaxBudgetCalls
    /\ IF department \notin DOMAIN budgets \/ action = "check" THEN
           /\ frame' = [frame EXCEPT ![t] =
                           [op |-> "budget",
                            req |-> [department |-> department, action |-> action,
                                     amount |-> amount],
                            res |-> BudgetCheck(budgets, department),
                            calls |-> CallsMade(t) + 1]]
           /\ pc' = pc
       ELSE
           /\ frame' = [frame EXCEPT ![t] =
                           [op |-> "budget",
                            req |-> [department |-> department, action |-> action,
                                     amount |-> amount],
                            spent_amount |-> budgets[department].spent_amount,
                            calls |-> CallsMade(t) + 1]]
           /\ pc' = [pc EXCEPT ![t] = "spent"]
    /\ UNCHANGED <<hospital_db, last, finance_db, wards, inventory, lock, calls>>

\* budget.spent_amount += amount: the write of the sum
BudgetStoreSpent(t) ==
    /\ pc[t] = "spent"
    /\ budgets' = [budgets EXCEPT ![frame[t].req.department].spent_amount =
                      frame[t].spent_amount + frame[t].req.amount]
    /\ pc' = [pc EXCEPT ![t] = "remaining"]
    /\ UNCHANGED <<hospital_db, last, frame, accounts, payments, transactions, wards, inventory, lock, calls>>

\* budget.remaining_amount = budget.total_amount - budget.spent_amount, and the return
BudgetStoreRemaining(t) ==
    /\ pc[t] = "remaining"
    /\ budgets' = [budgets EXCEPT ![frame[t].req.department].remaining_amount =
                      budgets[frame[t].req.department].total_amount
                        - budgets[frame[t].req.department].spent_amount]
    /\ frame' = [frame EXCEPT ![t] =
                    [op |-> "budget", req |-> frame[t].req,
                     res |-> [status |-> "success", message |-> "Budget updated"],
                     calls |-> frame[t].calls]]
    /\ pc' = [pc EXCEPT ![t] = "idle"]
    /\ UNCHANGED <<hospital_db, last, accounts, payments, transactions, wards, inventory, lock, calls>>

\* process_query recording an expense, among the BudgetTool calls
Expense(department, amount) ==
    /\ Len(transactions) < MaxExpenses
    /\ \E out \in {ProcessTransaction(Finance, "expense", department, amount)} :
          /\ budgets' = out.fin.budgets
          /\ accounts' = out.fin.accounts
          /\ payments' = out.fin.payments
          /\ transactions' = out.fin.transactions
          /\ last' = [op |-> "transaction",
                      req |-> [type |-> "expense", department |-> department,
                               amount |-> amount],
                      res |-> out.res]
    /\ UNCHANGED <<hospital_db, pc, frame, wards, inventory, lock, calls>>

NextLedger ==
    \/ \E amount \in QueryAmounts : Payment(amount)
    \/ \E type \in {"expense", "income"}, department \in QueryDepartments,
          amount \in QueryAmounts : Transaction(type, department, amount)

SpecLedger == Init /\ [][NextLedger]_vars

NextBudget ==
    \/ \E t \in Threads, department \in BudgetDepartments, action \in {"check", "update"},
          amount \in BudgetAmounts : BudgetStart(t, department, action, amount)
    \/ \E t \in Threads : BudgetStoreSpent(t)
    \/ \E t \in Threads : BudgetStoreRemaining(t)
    \/ \E amount \in BudgetAmounts : Expense("WardA", amount)

SpecBudget == Init /\ [][NextBudget]_vars

-----------------------------------------------------------------------------
(* Payment queries of process_query from several threads.  finance_db has no   *)
(* lock: the sufficiency check, PaymentTool.run and the read and the write of  *)
(* "balance -= amount" are steps of their own.                                 *)

\* the payment queries thread t has made
PaymentsMade(t) == IF frame[t].op = "payment" THEN frame[t].calls ELSE 0

\* the payment branch up to its sufficiency check
PayStart(t, amount) ==
    /\ pc[t] = "idle"
    /\ PaymentsMade(t) < MaxPayCalls
    /\ IF amount = 0 THEN
           /\ frame' = [frame EXCEPT ![t] =
                           [op |-> "payment", req |-> [amount |-> amount],
                            res |-> [status |-> "error",
                                     response |-> "Please specify payment amount"],
                            calls |-> PaymentsMade(t) + 1]]
           /\ pc' = pc
       ELSE IF accounts["main"].balance < amount THEN
           /\ frame' = [frame EXCEPT ![t] =
                           [op |-> "payment", req |-> [amount |-> amount],
                            res |-> [status |-> "error",
                                     response |-> "Insufficient funds in main account"],
                            calls |-> PaymentsMade(t) + 1]]
           /\ pc' = pc
       ELSE
           /\ frame' = [frame EXCEPT ![t] =
                           [op |-> "payment", req |-> [amount |-> amount],
                            calls |-> PaymentsMade(t) + 1]]
           /\ pc' = [pc EXCEPT ![t] = "pay"]
    /\ UNCHANGED <<hospital_db, last, finance_db, wards, inventory, lock, calls>>

\* PaymentTool.run: the payment is appended
PayAppend(t) ==
    /\ pc[t] = "pay"
    /\ payments' = AppendPayment(payments, frame[t].req.amount)
    /\ pc' = [pc EXCEPT ![t] = "load"]
    /\ UNCHANGED <<hospital_db, last, frame, budgets, accounts, transactions, wards, inventory, lock, calls>>

\* balance -= amount: the read of the balance
PayLoadBalance(t) ==
    /\ pc[t] = "load"
    /\ frame' = [frame EXCEPT ![t] =
                    [op |-> "payment", req |-> frame[t].req,
                     balance |-> accounts["main"].balance,
                     calls |-> frame[t].calls]]
    /\ pc' = [pc EXCEPT ![t] = "store"]
    /\ UNCHANGED <<hospital_db, last, finance_db, wards, inventory, lock, calls>>

\* balance -= amount: the write of the difference
PayStoreBalance(t) ==
    /\ pc[t] = "store"
    /\ accounts' = [accounts EXCEPT !["main"].balance = frame[t].balance - frame[t].req.amount]
    /\ pc' = [pc EXCEPT ![t] = "stamp"]
    /\ UNCHANGED <<hospital_db, last, frame, budgets, payments, transactions, wards, inventory, lock, calls>>

\* last_updated = datetime.now(), and the return
PayStoreUpdated(t) ==
    /\ pc[t] = "stamp"
    /\ accounts' = [accounts EXCEPT !["main"].last_updated = @ + 1]
    /\ frame' = [frame EXCEPT ![t] =
                    [op |-> "payment", req |-> frame[t].req,
                     res |-> [status |-> "success",
                              response |-> "Payment processed and balance updated"],
                     calls |-> frame[t].calls]]
    /\ pc' = [pc EXCEPT ![t] = "idle"]
    /\ UNCHANGED <<hospital_db, last, budgets, payments, transactions, wards, inventory, lock, calls>>

\* the amounts of the payment queries: none, two that fit the balance one at
\* a time and not together, and one that does not fit
PayAmounts == {0, 600000, 700000, 1200000}

NextPay ==
    \/ \E t \in Threads, amount \in PayAmounts : PayStart(t, amount)
    \/ \E t \in Threads : PayAppend(t)
    \/ \E t \in Threads : PayLoadBalance(t)
    \/ \E t \in Threads : PayStoreBalance(t)
    \/ \E t \in Threads : PayStoreUpdated(t)

SpecPay == Init /\ [][NextPay]_vars

-----------------------------------------------------------------------------
(* The wards: the tools' run, one call at a time.  No statement that a call    *)
(* reaches writes a bed.                                                       *)

\* patient ids and ward names of the requests: known ones, an unknown one, none
WardPatients == Patients \cup {"P999", ""}
WardNames == {"WardA", "WardB", "WardC", ""}

\* transfer_patient
Transfer(input_data) ==
    /\ last' = [op |-> "transfer", req |-> input_data, res |-> TransferRun(wards, input_data)]
    /\ UNCHANGED <<hospital_db, pc, frame, finance_db, wards, inventory, lock, calls>>

\* assign_patient
Assign(input_data) ==
    /\ last' = [op |-> "assign", req |-> input_data, res |-> AssignmentRun(wards, input_data)]
    /\ UNCHANGED <<hospital_db, pc, frame, finance_db, wards, inventory, lock, calls>>

\* discharge_patient
Discharge(input_data) ==
    /\ last' = [op |-> "discharge", req |-> input_data, res |-> DischargeRun(wards, input_data)]
    /\ UNCHANGED <<hospital_db, pc, frame, finance_db, wards, inventory, lock, calls>>

NextWard ==
    \/ \E patient_id \in WardPatients, from_ward \in WardNames, to_ward \in WardNames :
          Transfer([patient_id |-> patient_id, from_ward |-> from_ward, to_ward |-> to_ward])
    \/ \E patient_id \in WardPatients, ward_name \in WardNames :
          Assign([patient_id |-> patient_id, ward_name |-> ward_name])
    \/ \E patient_id \in WardPatients : Discharge([patient_id |-> patient_id])

SpecWard == Init /\ [][NextWard]_vars

-----------------------------------------------------------------------------
(* The inventory: the methods of InventoryDBTool, one call at a time           *)

\* the item ids of the calls: the two items and an unknown one
InventoryItemIds == {"med_001", "equip_002", "med_999"}

\* the quantities of update_stock and the amounts of record_usage
NewQuantities == {0, 10, 60}
UsedAmounts == {10, 25}

\* the usages recorded so far
UsagesRecorded ==
    Len(inventory[1].usage_history) + Len(inventory[2].usage_history)
      - Len(InitialInventory[1].usage_history) - Len(InitialInventory[2].usage_history)

\* update_stock
StockUpdate(item_id, new_quantity) ==
    /\ \E out \in {UpdateStock(inventory, item_id, new_quantity)} :
          /\ inventory' = out.inventory
          /\ last' = [op |-> "update_stock",
                      req |-> [item_id |-> item_id, new_quantity |-> new_quantity],
                      res |-> out.res]
    /\ UNCHANGED <<hospital_db, pc, frame, finance_db, wards, lock, calls>>

\* record_usage
UsageRecord(item_id, used_amount) ==
    /\ UsagesRecorded < MaxUsage
    /\ \E out \in {RecordUsage(inventory, item_id, used_amount)} :
          /\ inventory' = out.inventory
          /\ last' = [op |-> "record_usage",
                      req |-> [item_id |-> item_id, used_amount |-> used_amount],
                      res |-> out.res]
    /\ UNCHANGED <<hospital_db, pc, frame, finance_db, wards, lock, calls>>

\* list_low_stock
LowStock ==
    /\ last' = [op |-> "list_low_stock", req |-> <<>>, res |-> ListLowStock(inventory)]
    /\ UNCHANGED <<hospital_db, pc, frame, finance_db, wards, inventory, lock, calls>>

NextInventory ==
    \/ \E item_id \in InventoryItemIds, new_quantity \in NewQuantities :
          StockUpdate(item_id, new_quantity)
    \/ \E item_id \in InventoryItemIds, used_amount \in UsedAmounts :
          UsageRecord(item_id, used_amount)
    \/ LowStock

SpecInventory == Init /\ [][NextInventory]_vars

-----------------------------------------------------------------------------
(* Vocabulary of the properties *)

Minutes(t) == t[1] * 60 + t[2]

\* the SCHEDULED appointments of a slot, by position
ScheduledAt(appts, doctor_id, date, time) ==
    {i \in 1..Len(appts) : /\ appts[i].doctor_id = doctor_id
                           /\ appts[i].date = date
                           /\ appts[i].time = time
                           /\ appts[i].status = SCHEDULED}

\* the configured hours of the doctor that no SCHEDULED appointment holds that date
FreeHours(appts, doctor_id, date) ==
    {t \in Range(Doctors[doctor_id].available_hours) :
        ScheduledAt(appts, doctor_id, date, t) = {}}

IsAvailableDay(doctor_id, date) ==
    \E i \in 1..Len(Doctors[doctor_id].available_days) :
        Doctors[doctor_id].available_days[i] = date

\* the request passes completion and validation: it names a patient and ends
\* up on a slot (doctor, date, time) of the schedule
Admitted(appts, req) ==
    /\ AutoCompleteBookingInfo(appts, req).status = "ready"
    /\ ValidateBookingParameters(AutoCompleteBookingInfo(appts, req).patient_id,
                                 AutoCompleteBookingInfo(appts, req).doctor_id,
                                 AutoCompleteBookingInfo(appts, req).date,
                                 AutoCompleteBookingInfo(appts, req).time).status = "valid"

Slot(appts, req) == AutoCompleteBookingInfo(appts, req)

\* an admitted request whose slot is held by a SCHEDULED appointment
OnHeldSlot(appts, req) ==
    /\ Admitted(appts, req)
    /\ ScheduledAt(appts, Slot(appts, req).doctor_id, Slot(appts, req).date,
                   Slot(appts, req).time) # {}

\* the days date+1 .. date+7 on which the doctor works and has a free hour
OpenDaysAhead(appts, doctor_id, date) ==
    {k \in 1..7 : LET day == AddDays(date, k)
                  IN /\ IsAvailableDay(doctor_id, day)
                     /\ FreeHours(appts, doctor_id, day) # {}}

Earliest(times) == CHOOSE t \in times : \A u \in times : Minutes(t) <= Minutes(u)

\* the first of the days date+1 .. date+7 of the request's slot that is open
FirstOpenDay(appts, req) ==
    LET slot == Slot(appts, req)
        open == OpenDaysAhead(appts, slot.doctor_id, slot.date)
    IN AddDays(slot.date, CHOOSE k \in open : \A j \in open : k <= j)

\* on that day, the requested time if it is free, else the earliest free hour
HourOnFirstOpenDay(appts, req) ==
    LET slot == Slot(appts, req)
        free == FreeHours(appts, slot.doctor_id, FirstOpenDay(appts, req))
    IN IF slot.time \in free THEN slot.time ELSE Earliest(free)

\* the step appends exactly one SCHEDULED appointment of the request's patient
\* and doctor at (date, time)
Appends(appts, appts2, req, date, time) ==
    /\ Len(appts2) = Len(appts) + 1
    /\ SubSeq(appts2, 1, Len(appts)) = appts
    /\ appts2[Len(appts2)].doctor_id = Slot(appts, req).doctor_id
    /\ appts2[Len(appts2)].patient_id = req.patient_id
    /\ appts2[Len(appts2)].date = date
    /\ appts2[Len(appts2)].time = time
    /\ appts2[Len(appts2)].status = SCHEDULED

\* the four digits of n < 10000
FourDigits(n) ==
    <<DigitChars[((n \div 1000) % 10) + 1], DigitChars[((n \div 100) % 10) + 1],
      DigitChars[((n \div 10) % 10) + 1], DigitChars[(n % 10) + 1]>>

-----------------------------------------------------------------------------
(* Properties *)

\* C1: after any sequence of reserve and cancel calls executed one at a time,
\* every (doctor_id, date, time) has at most one SCHEDULED appointment.
C1_NoDoubleBooking ==
    \A i, j \in 1..Len(appointments) :
        (/\ i # j
         /\ appointments[i].status = SCHEDULED
         /\ appointments[j].status = SCHEDULED
         /\ appointments[i].doctor_id = appointments[j].doctor_id
         /\ appointments[i].date = appointments[j].date)
        => appointments[i].time # appointments[j].time

\* C2: the conflict check and the append are one critical section: when a
\* reserve that found its slot free (no_conflict) appends its appointment, no
\* SCHEDULED appointment holds that slot, so of several concurrent reserves of
\* a free slot at most one commits there.
C2_CheckAndAddAtomic ==
    [][\A t \in Threads :
          (/\ pc[t] = "add"
           /\ pc'[t] = "idle"
           /\ frame[t].conflict_status = "no_conflict")
          => ScheduledAt(appointments, frame[t].doctor_id, frame[t].date, frame[t].time) = {}]_vars

\* C3: reserve with auto_reschedule on a held slot, with no free hour on the
\* date and none on an available day among the next 7 days, returns
\* no_alternatives and appends nothing.
C3_NoAlternativesFound ==
    [][(/\ last'.op = "reserve"
        /\ last'.req.auto_reschedule
        /\ OnHeldSlot(appointments, last'.req)
        /\ FreeHours(appointments, Slot(appointments, last'.req).doctor_id,
                     Slot(appointments, last'.req).date) = {}
        /\ OpenDaysAhead(appointments, Slot(appointments, last'.req).doctor_id,
                         Slot(appointments, last'.req).date) = {})
       => (/\ last'.res.status = "no_alternatives"
           /\ appointments' = appointments
           /\ appointment_counter' = appointment_counter)]_vars

\* C4: reserve without auto_reschedule on a held slot returns conflict with all
\* of the doctor's free hours on that date, in ascending time order, appends
\* nothing and leaves the id counter alone.
C4_ConflictListsFreeHours ==
    [][(/\ last'.op = "reserve"
        /\ ~last'.req.auto_reschedule
        /\ OnHeldSlot(appointments, last'.req))
       => (/\ last'.res.status = "conflict"
           /\ Range(last'.res.alternative_times_same_day)
                = FreeHours(appointments, Slot(appointments, last'.req).doctor_id,
                            Slot(appointments, last'.req).date)
           /\ \A i, j \in 1..Len(last'.res.alternative_times_same_day) :
                 i < j => Minutes(last'.res.alternative_times_same_day[i])
                            < Minutes(last'.res.alternative_times_same_day[j])
           /\ appointments' = appointments
           /\ appointment_counter' = appointment_counter)]_vars

\* a conflict was returned although a cancelled appointment sits on the same
\* day, and at least two alternatives were listed
C4_Witness ==
    /\ last.op = "reserve"
    /\ last.res.status = "conflict"
    /\ Len(last.res.alternative_times_same_day) >= 2
    /\ \E i \in 1..Len(appointments) :
          /\ appointments[i].status = CANCELLED
          /\ appointments[i].date = last.req.date

\* C5: reserve with auto_reschedule on a held slot, the date having a free
\* hour, commits on the same date at the free hour nearest in minutes to the
\* requested time, the earlier one of two equidistant hours.
C5_NearestSameDay ==
    [][(/\ last'.op = "reserve"
        /\ last'.req.auto_reschedule
        /\ OnHeldSlot(appointments, last'.req)
        /\ FreeHours(appointments, Slot(appointments, last'.req).doctor_id,
                     Slot(appointments, last'.req).date) # {})
       => LET slot == Slot(appointments, last'.req)
              free == FreeHours(appointments, slot.doctor_id, slot.date)
              Dist(t) == IF Minutes(t) >= Minutes(slot.time)
                         THEN Minutes(t) - Minutes(slot.time)
                         ELSE Minutes(slot.time) - Minutes(t)
              got == last'.res.appointment.time
          IN /\ last'.res.status = "success"
             /\ last'.res.appointment.date = slot.date
             /\ got \in free
             /\ \A u \in free : \/ Dist(u) > Dist(got)
                                \/ (Dist(u) = Dist(got) /\ Minutes(u) >= Minutes(got))
             /\ Appends(appointments, appointments', last'.req, slot.date, got)]_vars

\* a reschedule within the day that had to choose between two equidistant free
\* hours: 16:00 was asked, 15:00 was given and 17:00 is still free
C5_Witness ==
    /\ last.op = "reserve"
    /\ last.res.status = "success"
    /\ last.res.rescheduled
    /\ last.req.time = <<16, 0>>
    /\ last.res.appointment.date = last.req.date
    /\ last.res.appointment.time = <<15, 0>>
    /\ ScheduledAt(appointments, "dr_jones", last.req.date, <<17, 0>>) = {}

C7_ValidationRejections ==
    [][last'.op = "reserve" =>
        LET req == last'.req
            known == req.doctor_id \in DOMAIN Doctors
            day_ok == req.date # <<>> /\ IsAvailableDay(req.doctor_id, req.date)
            hour_ok == req.time \in Range(Doctors[req.doctor_id].available_hours)
            Rejected(status) == /\ last'.res.status = status
                                /\ appointments' = appointments
                                /\ appointment_counter' = appointment_counter
        IN /\ req.patient_id = <<>> => Rejected("missing_patient")
           /\ (req.patient_id # <<>> /\ req.doctor_id # "" /\ ~known)
                 => Rejected("invalid_doctor")
           /\ (req.patient_id # <<>> /\ known /\ req.date # <<>> /\ ~day_ok)
                 => Rejected("invalid_date")
           /\ (req.patient_id # <<>> /\ known /\ day_ok /\ req.time # <<>> /\ ~hour_ok)
                 => Rejected("invalid_time")]_vars

\* C8: the i-th appointment appended has id APT followed by i zero-padded to 4
\* digits, so ids are distinct and increase in append order, and the counter
\* is the number of appended appointments plus one, under concurrent calls too.
C8_IdsFromCounter ==
    /\ appointment_counter = Len(appointments) + 1
    /\ \A i \in 1..Len(appointments) :
          appointments[i].id = <<"A", "P", "T">> \o FourDigits(i)
    /\ \A i, j \in 1..Len(appointments) :
          i < j => appointments[i].id # appointments[j].id

\* two threads raced for one slot and both appended: the two appointments
\* hold the same slot and still carry different ids
C8_Witness ==
    /\ Len(appointments) >= 2
    /\ appointments[1].status = SCHEDULED
    /\ appointments[2].status = SCHEDULED
    /\ appointments[1].date = appointments[2].date
    /\ appointments[1].time = appointments[2].time
    /\ appointments[1].id # appointments[2].id

\* C9: cancel with the id of an appointment that is already CANCELLED returns
\* not_found and changes nothing: no status, no slot, no counter.
C9_CancelCancelled ==
    [][(/\ last'.op = "cancel"
        /\ last'.req.appointment_id # <<>>
        /\ \E i \in 1..Len(appointments) :
              /\ StrUpper(appointments[i].id) = StrUpper(last'.req.appointment_id)
              /\ appointments[i].status = CANCELLED)
       => (/\ last'.res.status = "not_found"
           /\ appointments' = appointments
           /\ appointment_counter' = appointment_counter)]_vars

\* a cancel of an already cancelled id was answered not_found
C9_Witness ==
    /\ last.op = "cancel"
    /\ last.res.status = "not_found"
    /\ \E i \in 1..Len(appointments) :
          /\ StrUpper(appointments[i].id) = StrUpper(last.req.appointment_id)
          /\ appointments[i].status = CANCELLED

\* C10: an appointment that is CANCELLED or COMPLETED keeps that status for
\* ever, under every reserve, cancel and availability call: it never becomes
\* SCHEDULED again and a CANCELLED one never becomes COMPLETED.
C10_TerminalStatus ==
    [][\A i \in 1..Len(appointments) :
          appointments[i].status \in {CANCELLED, COMPLETED}
          => (/\ i <= Len(appointments')
              /\ appointments'[i].status = appointments[i].status)]_vars

\* a cancelled appointment whose slot has been booked again by a later record
C10_Witness ==
    \E i, j \in 1..Len(appointments) :
        /\ i < j
        /\ appointments[i].status = CANCELLED
        /\ appointments[j].status = SCHEDULED
        /\ appointments[j].doctor_id = appointments[i].doctor_id
        /\ appointments[j].date = appointments[i].date
        /\ appointments[j].time = appointments[i].time

\* the score the criteria earn an appointment: 3 for a patient id that contains
\* the one asked for (letter case apart), 2 for the doctor, 2 for the date
CriteriaScore(apt, req) ==
      (IF req.patient_id # <<>>
          /\ \E i \in 1..Len(apt.patient_id), j \in 0..Len(apt.patient_id) :
                StrLower(SubSeq(apt.patient_id, i, j)) = StrLower(req.patient_id)
       THEN 3 ELSE 0)
    + (IF req.doctor_id = apt.doctor_id THEN 2 ELSE 0)
    + (IF req.date # <<>> /\ req.date = apt.date THEN 2 ELSE 0)

\* the positions of the SCHEDULED appointments that score
Scoring(appts, req) ==
    {i \in 1..Len(appts) : appts[i].status = SCHEDULED /\ CriteriaScore(appts[i], req) > 0}

\* the position of the appointment of that id
PositionOf(appts, id) == CHOOSE i \in 1..Len(appts) : appts[i].id = id

\* matches names distinct scoring appointments, in descending score order,
\* none of them scoring less than a scoring appointment left out
TopCandidates(appts, req, matches) ==
    /\ \A a \in 1..Len(matches) :
          \E i \in Scoring(appts, req) : appts[i].id = matches[a]
    /\ \A a, b \in 1..Len(matches) :
          a < b => /\ matches[a] # matches[b]
                   /\ CriteriaScore(appts[PositionOf(appts, matches[a])], req)
                        >= CriteriaScore(appts[PositionOf(appts, matches[b])], req)
    /\ \A a \in 1..Len(matches), i \in Scoring(appts, req) :
          (\A b \in 1..Len(matches) : matches[b] # appts[i].id)
          => CriteriaScore(appts[PositionOf(appts, matches[a])], req)
               >= CriteriaScore(appts[i], req)

\* what cancel by criteria has to do on appts, given what it did
CriteriaOutcome(appts, appts2, req, res) ==
    /\ Scoring(appts, req) = {}
        => res.status = "no_matches" /\ appts2 = appts
    /\ Cardinality(Scoring(appts, req)) = 1
        => /\ res.status = "success"
           /\ Len(appts2) = Len(appts)
           /\ \A i \in 1..Len(appts) :
                 IF i \in Scoring(appts, req)
                 THEN /\ appts2[i] = [appts[i] EXCEPT !.status = CANCELLED]
                      /\ res.cancelled_appointment.id = appts[i].id
                 ELSE appts2[i] = appts[i]
    /\ Cardinality(Scoring(appts, req)) >= 2
        => /\ res.status = "multiple_matches"
           /\ appts2 = appts
           /\ Len(res.matches) <= 5
           /\ Len(res.matches) = 5 \/ Len(res.matches) = Cardinality(Scoring(appts, req))
           /\ TopCandidates(appts, req, res.matches)

\* C11: cancel by criteria scores each SCHEDULED appointment 3 for the patient
\* id, 2 for the doctor and 2 for the date; with no scoring appointment it
\* returns no_matches, with one it cancels that one, with more it returns at
\* most 5 candidates in descending score order and cancels none.
C11_CancelByCriteria ==
    [][(last'.op = "cancel" /\ last'.req.appointment_id = <<>>)
       => CriteriaOutcome(appointments, appointments', last'.req, last'.res)]_vars

\* six appointments scored, of two different scores, and five were listed
C11_Witness ==
    /\ last.op = "cancel"
    /\ last.req.appointment_id = <<>>
    /\ last.res.status = "multiple_matches"
    /\ Len(last.res.matches) = 5
    /\ Cardinality(Scoring(appointments, last.req)) >= 6
    /\ \E i, j \in Scoring(appointments, last.req) :
          CriteriaScore(appointments[i], last.req) # CriteriaScore(appointments[j], last.req)

\* the slot freed by a cancellation is free in appts, and a reserve of it by
\* the same patient, asked for with or without auto_reschedule, is committed
\* on that very slot
FreedAndTakenAgain(appts, counter, freed) ==
    /\ freed.time \in FreeHours(appts, freed.doctor_id, freed.date)
    /\ \A auto \in BOOLEAN :
          LET again == ExecuteBooking(appts, counter,
                           BookingRequest(J1, freed.doctor_id, <<>>, freed.date,
                                          freed.time, auto, InJune)).res
          IN /\ again.status = "success"
             /\ ~again.rescheduled
             /\ again.appointment.date = freed.date
             /\ again.appointment.time = freed.time

\* C12: after a successful cancel of the SCHEDULED appointment at (doctor,
\* date, time) the appointment is CANCELLED, the time is among the doctor's
\* free hours of the date, and a reserve of the same slot that follows at once
\* commits on that slot, with no conflict and no reschedule.
C12_CancelFreesSlot ==
    [][(last'.op = "cancel" /\ last'.res.status = "success")
       => /\ appointments'[PositionOf(appointments, last'.res.cancelled_appointment.id)].status
               = CANCELLED
          /\ FreedAndTakenAgain(appointments', appointment_counter', last'.res.freed_slot)]_vars

\* the query debits the main account: a payment or an expense transaction
IsDebit(call) ==
    \/ call.op = "payment"
    \/ call.op = "transaction" /\ call.req.type = "expense"

\* C13: after any sequence of payments, expense transactions and income
\* transactions every account balance is >= 0; a debit of more than the
\* current balance is rejected and leaves the balance, the payments and the
\* transactions as they were.
C13_BalanceNeverNegative ==
    /\ [](\A account \in DOMAIN accounts : accounts[account].balance >= 0)
    /\ [][(IsDebit(last') /\ last'.req.amount > accounts["main"].balance)
          => /\ last'.res.status = "error"
             /\ accounts' = accounts
             /\ payments' = payments
             /\ transactions' = transactions]_vars

\* C14: remaining_amount = total_amount - spent_amount holds of every budget
\* once the operations that change budgets have returned, and no update is
\* lost: each BudgetTool update adds its amount to the spent_amount that is
\* current when it writes, so that after N updates of a department its
\* spent_amount is the initial value plus the N amounts.
C14_BudgetInvariant ==
    /\ []((\A t \in Threads : pc[t] = "idle")
          => \A department \in DOMAIN budgets :
                budgets[department].remaining_amount
                  = budgets[department].total_amount - budgets[department].spent_amount)
    /\ [][\A t \in Threads :
            (pc[t] = "spent" /\ pc'[t] = "remaining")
            => budgets'[frame[t].req.department].spent_amount
                 = budgets[frame[t].req.department].spent_amount + frame[t].req.amount]_vars

\* the patient holds a bed of the ward of that name
InWard(ws, patient_id, name) ==
    \E i \in DOMAIN ws[name].beds : ws[name].beds[i] = patient_id

\* a transfer request that names a known patient and two known wards
KnownTransfer(ws, input_data) ==
    /\ input_data.patient_id \in Patients
    /\ input_data.from_ward \in DOMAIN ws
    /\ input_data.to_ward \in DOMAIN ws

\* C15: transfer of a patient who holds a bed of from_ward to a to_ward with no
\* free bed fails with TargetFull and changes no bed; transfer of a patient
\* who is not in from_ward fails with NotInWard and changes no bed.
C15_TransferRejections ==
    [][(last'.op = "transfer" /\ KnownTransfer(wards, last'.req))
       => /\ (/\ InWard(wards, last'.req.patient_id, last'.req.from_ward)
              /\ AvailableBeds(wards[last'.req.to_ward]) = {})
             => /\ last'.res.status = "error"
                /\ last'.res.message = "Target ward is full"
                /\ wards' = wards
          /\ ~InWard(wards, last'.req.patient_id, last'.req.from_ward)
             => /\ last'.res.status = "error"
                /\ last'.res.message = "Patient not in ward"
                /\ wards' = wards]_vars

\* the fields of an appointment that are fixed once it is appended
Fixed(apt) ==
    [id |-> apt.id, patient_id |-> apt.patient_id, doctor_id |-> apt.doctor_id,
     date |-> apt.date, time |-> apt.time]

\* C17: the appointment history is append-only: no step removes or reorders
\* appointments, and an appended appointment keeps its id, patient_id,
\* doctor_id, date and time; only its status may change.
C17_AppendOnly ==
    [][/\ Len(appointments') >= Len(appointments)
       /\ \A i \in 1..Len(appointments) :
             Fixed(appointments'[i]) = Fixed(appointments[i])]_vars

\* an appointment was appended behind one whose status had been changed
C17_Witness ==
    /\ last.op = "reserve"
    /\ last.res.status = "success"
    /\ Len(appointments) >= 3
    /\ \E i \in 1..(Len(appointments) - 1) : appointments[i].status = CANCELLED
    /\ appointments[Len(appointments)].status = SCHEDULED

\* a reserve with auto_reschedule of a held 10:00 while the doctor's free hours
\* of the date are 09:00, 11:00 and 15:00
TenBetweenNineAndEleven(appts, call) ==
    /\ call.op = "reserve"
    /\ call.req.auto_reschedule
    /\ OnHeldSlot(appts, call.req)
    /\ Slot(appts, call.req).time = <<10,0>>
    /\ FreeHours(appts, Slot(appts, call.req).doctor_id, Slot(appts, call.req).date)
         = {<<9,0>>, <<11,0>>, <<15,0>>}

\* C18 as stated: with free hours 09:00, 11:00 and 15:00 a conflicting reserve
\* at 10:00 with auto_reschedule is committed at 11:00.
C18_CommitsAtEleven ==
    [][TenBetweenNineAndEleven(appointments, last')
       => Appends(appointments, appointments', last'.req,
                  Slot(appointments, last'.req).date, <<11,0>>)]_vars

\* C18 amended: with free hours 09:00, 11:00 and 15:00 a conflicting reserve
\* at 10:00 with auto_reschedule is committed at 09:00, the earlier of the two
\* free hours that are 60 minutes away.
C18_CommitsAtNine ==
    [][TenBetweenNineAndEleven(appointments, last')
       => /\ Appends(appointments, appointments', last'.req,
                     Slot(appointments, last'.req).date, <<9,0>>)
          /\ last'.res.status = "success"
          /\ last'.res.rescheduled
          /\ last'.res.appointment.time = <<9,0>>]_vars

\* the reserve of 10:00 was moved, and 11:00 and 15:00 are what is left free
C18_Witness ==
    /\ last.op = "reserve"
    /\ last.req.auto_reschedule
    /\ last.req.time = <<10,0>>
    /\ last.res.status = "success"
    /\ last.res.rescheduled
    /\ FreeHours(appointments, last.req.doctor_id, last.req.date) = {<<11,0>>, <<15,0>>}

\* the appointment of patient J1 with dr_smith on 2025-06-07
SmithAppointment(n, time, status) ==
    [id |-> FormatId(n), patient_id |-> J1, doctor_id |-> "dr_smith",
     date |-> <<2025,6,7>>, time |-> time, status |-> status]

\* the reserve of dr_smith's 09:00 on 2025-06-07 by J1
NineRequest(auto) ==
    BookingRequest(J1, "dr_smith", <<>>, <<2025,6,7>>, <<9,0>>, auto, InJune)

\* a suggestion names dr_smith on the day with 09:00 among its times
SuggestsNine(options, date) ==
    \E i \in 1..Len(options) :
        /\ options[i].doctor_id = "dr_smith"
        /\ options[i].date = date
        /\ InList(<<9,0>>, options[i].available_times)

\* C19: from an empty history, the reserve of dr_smith's 09:00 on 2025-06-07
\* by J1 succeeds with id APT0001; the same request without auto_reschedule
\* returns conflict listing 10:00, 11:00, 14:00, 15:00; the same request with
\* auto_reschedule is committed at 10:00; cancel of APT0001 then frees 09:00
\* and its rebooking suggestions name dr_smith at 09:00 on the next day with a
\* free hour, 2025-06-08.
C19_SmithScenario ==
    [][/\ (/\ appointments = <<>>
           /\ appointment_counter = 1
           /\ last'.op = "reserve"
           /\ last'.req \in {NineRequest(TRUE), NineRequest(FALSE)})
          => /\ last'.res.status = "success"
             /\ last'.res.appointment.id = FormatId(1)
             /\ appointments' = <<SmithAppointment(1, <<9,0>>, SCHEDULED)>>
       /\ (/\ appointments = <<SmithAppointment(1, <<9,0>>, SCHEDULED)>>
           /\ last'.op = "reserve"
           /\ last'.req = NineRequest(FALSE))
          => /\ last'.res.status = "conflict"
             /\ last'.res.alternative_times_same_day
                  = << <<10,0>>, <<11,0>>, <<14,0>>, <<15,0>> >>
             /\ appointments' = appointments
       /\ (/\ appointments = <<SmithAppointment(1, <<9,0>>, SCHEDULED)>>
           /\ last'.op = "reserve"
           /\ last'.req = NineRequest(TRUE))
          => /\ last'.res.status = "success"
             /\ appointments' = <<SmithAppointment(1, <<9,0>>, SCHEDULED),
                                  SmithAppointment(2, <<10,0>>, SCHEDULED)>>
       /\ (/\ appointments = <<SmithAppointment(1, <<9,0>>, SCHEDULED),
                               SmithAppointment(2, <<10,0>>, SCHEDULED)>>
           /\ last'.op = "cancel"
           /\ last'.req = CancellationRequest(FormatId(1), <<>>, "", <<>>))
          => /\ last'.res.status = "success"
             /\ appointments' = <<SmithAppointment(1, <<9,0>>, CANCELLED),
                                  SmithAppointment(2, <<10,0>>, SCHEDULED)>>
             /\ <<9,0>> \in FreeHours(appointments', "dr_smith", <<2025,6,7>>)
             /\ SuggestsNine(last'.res.rebooking_options, <<2025,6,8>>)]_vars

\* the scenario has run to its end
C19_Witness ==
    /\ appointments = <<SmithAppointment(1, <<9,0>>, CANCELLED),
                        SmithAppointment(2, <<10,0>>, SCHEDULED)>>
    /\ last.op = "cancel"
    /\ last.res.status = "success"
    /\ last.res.cancelled_appointment.id = FormatId(1)

\* the appointment is SCHEDULED under the id, letter case aside
ScheduledUnder(apt, appointment_id) ==
    /\ apt.status = SCHEDULED
    /\ StrUpper(apt.id) = StrUpper(appointment_id)

\* the ids of the SCHEDULED appointments, in store order, of which one of the
\* id and the upper-cased appointment_id is contained in the other
ContainmentMatches(appts, appointment_id) ==
    LET Near(apt) == /\ apt.status = SCHEDULED
                     /\ \/ StrContains(StrUpper(appointment_id), apt.id)
                        \/ StrContains(apt.id, StrUpper(appointment_id))
        near == SelectSeq(appts, Near)
    IN [i \in 1..Len(near) |-> near[i].id]

\* a cancel whose appointment_id is given and is the id of no SCHEDULED appointment
IdMismatch(appts, call) ==
    /\ call.op = "cancel"
    /\ call.req.appointment_id # <<>>
    /\ \A i \in 1..Len(appts) : ~ScheduledUnder(appts[i], call.req.appointment_id)

\* C20: cancel with an appointment_id that equals (letter case aside) the id
\* of no SCHEDULED appointment cancels nothing, whatever similar active ids
\* exist and whatever other criteria are supplied: the result is not_found
\* with the containment-matching active ids, and the appointments are unchanged.
C20_NoCancelOnIdMismatch ==
    [][IdMismatch(appointments, last')
       => /\ last'.res.status = "not_found"
          /\ last'.res.similar_appointments
               = ContainmentMatches(appointments, last'.req.appointment_id)
          /\ appointments' = appointments]_vars

\* a mismatching id came with criteria that single out one SCHEDULED
\* appointment, and a similar active id was returned
C20_Witness ==
    /\ IdMismatch(appointments, last)
    /\ last.req.patient_id # <<>>
    /\ last.req.doctor_id # ""
    /\ last.res.status = "not_found"
    /\ last.res.similar_appointments # <<>>
    /\ Cardinality({i \in 1..Len(appointments) :
                      /\ appointments[i].status = SCHEDULED
                      /\ appointments[i].doctor_id = last.req.doctor_id
                      /\ appointments[i].date = last.req.date}) = 1

\* the days date+first .. date+last on which the doctor works and has a free hour
OpenDays(appts, doctor_id, date, first, last_day) ==
    {k \in first..last_day : /\ IsAvailableDay(doctor_id, AddDays(date, k))
                             /\ FreeHours(appts, doctor_id, AddDays(date, k)) # {}}

\* the nearest of these days
NearestOpenDay(appts, doctor_id, date, first, last_day) ==
    AddDays(date, CHOOSE k \in OpenDays(appts, doctor_id, date, first, last_day) :
                     \A j \in OpenDays(appts, doctor_id, date, first, last_day) : k <= j)

\* the doctors of the specialty of doctor_id other than doctor_id
Colleagues(doctor_id) ==
    {d \in Range(DoctorOrder) : /\ d # doctor_id
                                /\ Doctors[d].specialty = Doctors[doctor_id].specialty}

\* the positions of the suggestions of a priority
OfPriority(options, priority) ==
    {i \in 1..Len(options) : options[i].priority = priority}

\* the times are free hours of the doctor that day, at least one, in rising order
FreeTimesInOrder(appts, option) ==
    /\ option.available_times # <<>>
    /\ Range(option.available_times) \subseteq FreeHours(appts, option.doctor_id, option.date)
    /\ \A i, j \in 1..Len(option.available_times) :
          i < j => Minutes(option.available_times[i]) < Minutes(option.available_times[j])

\* the suggestions are what C21 says, for cancelled appointment c and the
\* appointments as the cancel leaves them
SuggestionsAsStated(appts, c, options) ==
    /\ Len(options) <= 3
    /\ \A i, j \in 1..Len(options) : i < j => options[i].priority <= options[j].priority
    /\ \A i \in 1..Len(options) : options[i].priority \in {1, 2}
    /\ Cardinality(OfPriority(options, 1)) <= 1
    /\ \A i \in OfPriority(options, 1) :
          /\ options[i].doctor_id = c.doctor_id
          /\ OpenDays(appts, c.doctor_id, c.date, 1, 14) # {}
          /\ options[i].date = NearestOpenDay(appts, c.doctor_id, c.date, 1, 14)
          /\ FreeTimesInOrder(appts, options[i])
    /\ \A i \in OfPriority(options, 2) :
          /\ options[i].doctor_id \in Colleagues(c.doctor_id)
          /\ OpenDays(appts, options[i].doctor_id, c.date, 0, 6) # {}
          /\ options[i].date = NearestOpenDay(appts, options[i].doctor_id, c.date, 0, 6)
          /\ FreeTimesInOrder(appts, options[i])
          /\ \A j \in OfPriority(options, 2) :
                options[j].doctor_id = options[i].doctor_id => j = i

ScheduledCount(appts, doctor_id) ==
    Cardinality({i \in 1..Len(appts) : /\ appts[i].doctor_id = doctor_id
                                       /\ appts[i].status = SCHEDULED})

\* the doctors matching the specialty of a request, in registration order
DoctorsOfSpecialty(specialty) ==
    LET OfTarget(d) == StrContains(TargetSpecialty(BookingSpecialtyMappings, specialty),
                                   StrLower(Doctors[d].specialty))
    IN SelectSeq(DoctorOrder, OfTarget)

\* position k of the doctors has the fewest SCHEDULED appointments, and every
\* doctor registered before it has more
FewestFirst(appts, doctors, k) ==
    /\ \A j \in 1..Len(doctors) :
          ScheduledCount(appts, doctors[k]) <= ScheduledCount(appts, doctors[j])
    /\ \A j \in 1..(k - 1) :
          ScheduledCount(appts, doctors[k]) < ScheduledCount(appts, doctors[j])

\* a reserve that names a specialty and no doctor
BySpecialty(call) ==
    /\ call.op = "reserve"
    /\ call.req.doctor_id = ""
    /\ call.req.specialty # <<>>

ChosenDate(req) ==
    IF req.date # <<>> THEN req.date
    ELSE AddDays(req.today,
                 CHOOSE k \in 0..13 :
                    /\ IsAvailableDay(req.doctor_id, AddDays(req.today, k))
                    /\ \A j \in 0..(k - 1) : ~IsAvailableDay(req.doctor_id, AddDays(req.today, j)))

\* a reserve of a patient with a known doctor, without time, on a day the
\* doctor works
WithoutTime(call) ==
    /\ call.op = "reserve"
    /\ call.req.time = <<>>
    /\ call.req.patient_id # <<>>
    /\ call.req.doctor_id \in Range(DoctorOrder)
    /\ \/ call.req.date # <<>> /\ IsAvailableDay(call.req.doctor_id, call.req.date)
       \/ call.req.date = <<>>
          /\ \E k \in 0..13 : IsAvailableDay(call.req.doctor_id, AddDays(call.req.today, k))

\* C23: reserve with time omitted commits at the chronologically first free
\* hour of the doctor on the chosen date; with no free hour on that date it
\* fails with no_availability and appends nothing.
C23_TimeOmitted ==
    [][WithoutTime(last')
       => IF FreeHours(appointments, last'.req.doctor_id, ChosenDate(last'.req)) # {}
          THEN /\ last'.res.status = "success"
               /\ Appends(appointments, appointments', last'.req, ChosenDate(last'.req),
                          Earliest(FreeHours(appointments, last'.req.doctor_id,
                                             ChosenDate(last'.req))))
          ELSE /\ last'.res.status = "no_availability"
               /\ appointments' = appointments]_vars

\* a reserve without time found the doctor's day full
C23_Witness ==
    /\ WithoutTime(last)
    /\ last.res.status = "no_availability"
    /\ FreeHours(appointments, last.req.doctor_id, ChosenDate(last.req)) = {}

\* the times of the SCHEDULED appointments of the doctor on the date
HeldTimes(appts, doctor_id, date) ==
    {appts[i].time : i \in {j \in 1..Len(appts) : /\ appts[j].doctor_id = doctor_id
                                                  /\ appts[j].date = date
                                                  /\ appts[j].status = SCHEDULED}}

\* an availability query of a known doctor for a date
OfDoctorAndDate(call) ==
    /\ call.op = "availability"
    /\ call.req.doctor_id \in Range(DoctorOrder)
    /\ call.req.date # <<>>

\* C24: for a doctor and a date of the doctor's available_days the availability
\* query returns as available the configured hours no SCHEDULED appointment of
\* the doctor holds that date and as booked the times SCHEDULED appointments
\* hold; CANCELLED appointments block nothing; available and booked are
\* disjoint and together the configured hours.  For another date it returns
\* unavailable_date with the doctor's days.
C24_AvailabilityPartition ==
    OfDoctorAndDate(last)
    => IF IsAvailableDay(last.req.doctor_id, last.req.date)
       THEN /\ last.res.status = "success"
            /\ Range(last.res.available_slots)
                 = FreeHours(appointments, last.req.doctor_id, last.req.date)
            /\ Range(last.res.booked_slots)
                 = HeldTimes(appointments, last.req.doctor_id, last.req.date)
            /\ Range(last.res.available_slots) \cap Range(last.res.booked_slots) = {}
            /\ Range(last.res.available_slots) \cup Range(last.res.booked_slots)
                 = Range(Doctors[last.req.doctor_id].available_hours)
       ELSE /\ last.res.status = "unavailable_date"
            /\ last.res.available_dates = Doctors[last.req.doctor_id].available_days

\* the query met a day with a SCHEDULED and a CANCELLED appointment of the
\* doctor, and the hour of the CANCELLED one is listed as available
C24_Witness ==
    /\ OfDoctorAndDate(last)
    /\ last.res.status = "success"
    /\ last.res.booked_slots # <<>>
    /\ \E i \in 1..Len(appointments) :
          /\ appointments[i].doctor_id = last.req.doctor_id
          /\ appointments[i].date = last.req.date
          /\ appointments[i].status = CANCELLED
          /\ appointments[i].time \in Range(last.res.available_slots)

\* the sum of the amounts of the records
RECURSIVE SumOfAmounts(_)
SumOfAmounts(records) ==
    IF records = <<>> THEN 0
    ELSE Head(records).amount + SumOfAmounts(Tail(records))

\* the recorded transactions of a type
OfType(records, type) ==
    SelectSeq(records, LAMBDA r : r.type = type)

\* what the recorded transactions and payments make of the initial balance
ReconciledBalance ==
    InitialAccounts["main"].balance
    + SumOfAmounts(OfType(transactions, "income"))
    - SumOfAmounts(OfType(transactions, "expense"))
    - SumOfAmounts(payments)

\* C25: after any sequence of process_query operations the main balance is the
\* initial balance plus the recorded income minus the recorded expenses minus
\* the recorded payments: no operation appends a transaction or a payment
\* without the matching change of the balance, and none changes the balance
\* without appending a record.
C25_LedgerReconciles ==
    /\ [](accounts["main"].balance = ReconciledBalance)
    /\ [][(payments' # payments \/ transactions' # transactions)
          <=> accounts'["main"].balance # accounts["main"].balance]_vars

\* a payment, an income and an expense have been recorded
C25_Witness ==
    /\ payments # <<>>
    /\ \E i \in 1..Len(transactions) : transactions[i].type = "income"
    /\ \E i \in 1..Len(transactions) : transactions[i].type = "expense"
    /\ accounts["main"].balance # InitialAccounts["main"].balance

\* thread t holds the result of a budget check of a known department
HasRead(t) ==
    /\ frame[t].op = "budget"
    /\ frame[t].req.action = "check"
    /\ "res" \in DOMAIN frame[t]
    /\ frame[t].res.status = "success"

\* C26: no reader observes a budget whose spent_amount an apply-to-budget
\* operation has changed while remaining_amount still holds its old value:
\* what a budget check returns has remaining = total - spent.
C26_ReadersSeeBothWrites ==
    \A t \in Threads :
        HasRead(t) => frame[t].res.data.remaining
                        = frame[t].res.data.total - frame[t].res.data.spent

\* C27: of two concurrent payments against the main account, each fitting the
\* balance and their sum exceeding it, at most one is accepted and the balance
\* never goes below zero: the payments on record never add up to more than the
\* funds the account had.
C27_ConcurrentPayments ==
    /\ accounts["main"].balance >= 0
    /\ SumOfAmounts(payments) <= InitialAccounts["main"].balance

\* thread t holds the success result of a cancel
CancelSucceeded(t) ==
    /\ frame[t].op = "cancel"
    /\ "res" \in DOMAIN frame[t]
    /\ frame[t].res.status = "success"

\* C28: of two concurrent cancel calls for the same SCHEDULED appointment id
\* exactly one returns success, the other not_found, and the slot is reported
\* freed once: no two callers hold a success for the same appointment.
C28_OneCancelSucceeds ==
    \A t, u \in Threads :
        (t # u /\ CancelSucceeded(t) /\ CancelSucceeded(u))
        => frame[t].res.cancelled_appointment.id # frame[u].res.cancelled_appointment.id

\* the band of a utilization of load out of capacity with boundaries strictly
\* greater than 90, 70 and 40 percent: 4 the highest, 1 the lowest
BandOf(load, capacity) ==
    IF load * 100 > 90 * capacity THEN 4
    ELSE IF load * 100 > 70 * capacity THEN 3
    ELSE IF load * 100 > 40 * capacity THEN 2
    ELSE 1

\* the band a status of either view names
BandNamed(status) ==
    CASE status \in {"overbooked", "fully_booked"} -> 4
      [] status = "busy" -> 3
      [] status = "moderate" -> 2
      [] status \in {"underutilized", "available"} -> 1

\* a doctor search by specialty follows an overview report on the same appointments
SearchAfterOverview ==
    /\ last.op = "analytics"
    /\ last.res.status = "success"
    /\ last'.op = "doctor_search"
    /\ last'.req.specialty # <<>>
    /\ last'.res.status = "success"
    /\ appointments' = appointments

\* C29: for every doctor and every reachable appointment history the doctor's
\* utilization is placed in the same band by the doctor search and by the
\* analytics report, with boundaries strictly greater than 90, 70 and 40; at
\* exactly 40, 70 and 90 percent both report the same band.
C29_SameBands ==
    [][SearchAfterOverview
       => \A d \in DOMAIN last'.res.doctors :
             /\ BandNamed(last'.res.doctors[d].availability_status)
                  = BandNamed(last.res.doctor_performance[d].status)
             /\ BandNamed(last'.res.doctors[d].availability_status)
                  = BandOf(ScheduledCount(appointments, d),
                           last.res.doctor_performance[d].capacity)]_vars

\* C30: every reserve, cancel, availability, assign, discharge, transfer,
\* balance and budget request, valid or invalid, returns a structured result
\* with a status discriminator and never raises.
C30_NeverRaises ==
    last.op # "none" => last.res.status # "raised"

\* the patient holds a bed of some ward
HoldsBed(ws, patient_id) ==
    \E name \in DOMAIN ws : InWard(ws, patient_id, name)

\* C31: discharge of a known patient frees the bed the patient occupies, in
\* whichever ward it is, and returns success; if the patient occupies no bed
\* it returns NotAssigned (not assigned to any ward) and changes no bed.
C31_Discharge ==
    [][(last'.op = "discharge" /\ last'.req.patient_id \in Patients)
       => IF HoldsBed(wards, last'.req.patient_id)
          THEN /\ last'.res.status = "success"
               /\ ~HoldsBed(wards', last'.req.patient_id)
          ELSE /\ last'.res.status = "error"
               /\ last'.res.message = "Patient is not assigned to any ward"
               /\ wards' = wards]_vars

\* C32: every operation that changes an account's balance (payment, expense
\* transaction, income transaction) also updates that account's last_updated
\* timestamp within the same operation.
C32_LastUpdatedFollowsBalance ==
    [][\A account \in DOMAIN accounts :
          accounts'[account].balance # accounts[account].balance
          => accounts'[account].last_updated # accounts[account].last_updated]_vars

\* the step serves an income query
IsCredit(l) == l.op = "transaction" /\ l.req.type = "income"

\* the step rejects the query and leaves the finance store as it was
RejectedUnchanged ==
    /\ last'.res.status = "error"
    /\ finance_db' = finance_db

\* the step accepts the query and adds its amount to the main balance
Credited ==
    /\ last'.res.status = "success"
    /\ accounts'["main"].balance = accounts["main"].balance + last'.req.amount

\* C33 as stated: a credit (income) with amount <= 0 is rejected with
\* InvalidAmount and changes nothing; a credit with amount > 0 always succeeds
\* whatever the current balance is and increases the balance by exactly that
\* amount.
C33_CreditAlwaysSucceeds ==
    [][IsCredit(last')
       => IF last'.req.amount <= 0 THEN RejectedUnchanged ELSE Credited]_vars

\* C33 as amended: a credit with amount <= 0 is rejected and changes nothing;
\* a credit with amount > 0 that names a ward without a budget is rejected
\* and changes nothing; a credit with amount > 0 that names no ward, or a ward
\* with a budget, succeeds whatever the current balance is and increases the
\* main balance by exactly that amount.
C33_CreditOfKnownDepartment ==
    [][IsCredit(last')
       => IF last'.req.amount <= 0 THEN
              /\ RejectedUnchanged
              /\ last'.res.response = "Please specify an amount"
          ELSE IF last'.req.department \notin {"GENERAL", "WardA", "WardB"} THEN
              RejectedUnchanged
          ELSE Credited]_vars

\* an income has been credited to a main account that was overdrawn
C33_Witness ==
    /\ IsCredit(last)
    /\ last.req.amount > 0
    /\ last.res.status = "success"
    /\ accounts["main"].balance < last.req.amount

\* the next-available answers of a call: doctor, horizon in days, and the
\* day returned, <<>> for None
NextAvailableAnswers(call) ==
    IF call.op = "availability" THEN
        IF call.req.doctor_id \in Range(DoctorOrder) /\ call.req.date = <<>>
        THEN {[doctor_id |-> call.req.doctor_id, horizon |-> 7,
               day |-> IF call.res.earliest_available = <<>> THEN <<>>
                       ELSE call.res.earliest_available.date]}
        ELSE {}
    ELSE IF call.op = "doctor_search" /\ call.res.status = "success" THEN
        LET Answer(entry) ==
                [doctor_id |-> entry.doctor_id, horizon |-> 14,
                 day |-> IF entry.next_available = <<>> THEN <<>>
                         ELSE entry.next_available.date]
        IN IF "doctors" \in DOMAIN call.res
           THEN {Answer(call.res.doctors[d]) : d \in DOMAIN call.res.doctors}
           ELSE IF "doctor" \in DOMAIN call.res THEN {Answer(call.res.doctor)}
           ELSE {Answer(call.res.all_doctors[d]) : d \in DOMAIN call.res.all_doctors}
    ELSE {}

\* C34: the next-available query for a doctor scans days from today forward in
\* calendar order over its horizon (7 days in the availability view, 14 in the
\* doctor search), skips days not in the doctor's available_days, and returns
\* the first day having at least one free hour, or None when no day within the
\* horizon has one.
C34_NextAvailable ==
    \A answer \in NextAvailableAnswers(last) :
        IF OpenDays(appointments, answer.doctor_id, last.req.today, 0, answer.horizon - 1) = {}
        THEN answer.day = <<>>
        ELSE answer.day = NearestOpenDay(appointments, answer.doctor_id, last.req.today,
                                         0, answer.horizon - 1)

\* a doctor search asked on a day all of whose hours are taken returned a
\* later day of the doctor
C34_Witness ==
    /\ last.op = "doctor_search"
    /\ \E answer \in NextAvailableAnswers(last) :
          /\ IsAvailableDay(answer.doctor_id, last.req.today)
          /\ FreeHours(appointments, answer.doctor_id, last.req.today) = {}
          /\ answer.day # <<>>
          /\ answer.day # last.req.today

\* the calls that only read the appointment store
ReadOnlyOps == {"availability", "doctor_search", "patient_records", "analytics"}

\* C35: availability, doctor-search, patient-records and analytics queries
\* never change state: the appointment list, every appointment's status and
\* the id counter are identical before and after any such query.  (The
\* doctors' specialty, available_days and available_hours are the constant
\* Doctors: no statement of the program assigns them after construction.)
C35_QueriesChangeNothing ==
    [][last'.op \in ReadOnlyOps
       => /\ appointments' = appointments
          /\ appointment_counter' = appointment_counter]_vars

\* a query of each kind has been answered over a store that holds a SCHEDULED
\* and a CANCELLED appointment; shown here for the patient record that counts both
C35_Witness ==
    /\ last.op = "patient_records"
    /\ last.res.status = "success"
    /\ last.res.record_summary.scheduled > 0
    /\ last.res.record_summary.cancelled > 0
    /\ \E i \in 1..Len(appointments) : appointments[i].status = CANCELLED
    /\ appointment_counter = Len(appointments) + 1

\* the normalization table: the keywords of each canonical specialty
NormalizationTable ==
    { [canonical |-> <<"c","a","r","d","i","o","l","o","g","y">>,
        keywords |-> {<<"h","e","a","r","t">>,
                     <<"c","a","r","d","i","a","c">>,
                     <<"c","a","r","d","i","o","l","o","g","i","s","t">>,
                     <<"c","a","r","d","i","o","v","a","s","c","u","l","a","r">>}],
       [canonical |-> <<"n","e","u","r","o","l","o","g","y">>,
        keywords |-> {<<"b","r","a","i","n">>,
                     <<"n","e","r","v","e">>,
                     <<"n","e","u","r","o">>,
                     <<"n","e","r","v","o","u","s"," ","s","y","s","t","e","m">>}],
       [canonical |-> <<"o","r","t","h","o","p","e","d","i","c","s">>,
        keywords |-> {<<"b","o","n","e">>,
                     <<"j","o","i","n","t">>,
                     <<"o","r","t","h","o","p","e","d","i","c">>,
                     <<"m","u","s","c","u","l","o","s","k","e","l","e","t","a","l">>}],
       [canonical |-> <<"g","e","n","e","r","a","l"," ","m","e","d","i","c","i","n","e">>,
        keywords |-> {<<"g","e","n","e","r","a","l">>,
                     <<"f","a","m","i","l","y">>,
                     <<"p","r","i","m","a","r","y">>,
                     <<"g","p">>}] }

\* the canonical specialty of a keyword of the table
CanonicalOf(keyword) ==
    (CHOOSE row \in NormalizationTable : keyword \in row.keywords).canonical

\* the call names one keyword of the table as its specialty, and no doctor
NamesKeyword(call) ==
    /\ call.op \in {"reserve", "availability", "doctor_search"}
    /\ \E row \in NormalizationTable : call.req.specialty \in row.keywords
    /\ call.op # "doctor_search" => call.req.doctor_id = ""

\* C36: every entry point that accepts a free-text specialty (doctor search,
\* availability by specialty, reserve auto-selection) maps each keyword of the
\* normalization table to the same canonical specialty: heart, cardiac,
\* cardiologist, cardiovascular to cardiology; brain, nerve, neuro, nervous
\* system to neurology; bone, joint, orthopedic, musculoskeletal to
\* orthopedics; general, family, primary, gp to general medicine.
C36_SameCanonicalSpecialty ==
    NamesKeyword(last)
    => CASE last.op = "doctor_search" ->
              /\ last.res.status = "success"
              /\ last.res.specialty_searched = CanonicalOf(last.req.specialty)
         [] last.op = "availability" ->
              /\ last.res.status = "success"
              /\ last.res.specialty = CanonicalOf(last.req.specialty)
         [] last.op = "reserve" ->
              /\ last.res.status = "success"
              /\ StrLower(Doctors[appointments[Len(appointments)].doctor_id].specialty)
                   = CanonicalOf(last.req.specialty)

\* the call names an item id that no item of the inventory has
OfUnknownItem(call) ==
    /\ call.op \in {"update_stock", "record_usage"}
    /\ \A i \in 1..Len(inventory) : inventory[i].item_id # call.req.item_id

\* C37: an inventory item's quantity is never negative after any sequence of
\* record_usage and update_stock calls; record_usage or update_stock on an
\* unknown item id returns False and changes no item.
C37_QuantityNeverNegative ==
    /\ [](\A i \in 1..Len(inventory) : inventory[i].quantity >= 0)
    /\ [][OfUnknownItem(last') => (last'.res = FALSE /\ inventory' = inventory)]_vars

\* thread t has started a call that has not returned
InCall(t) == pc[t] # "idle" \/ lock = t

\* thread t is between calls and holds the result of its last one
Returned(t) ==
    /\ pc[t] = "idle"
    /\ lock # t
    /\ "res" \in DOMAIN frame[t]
    /\ "status" \in DOMAIN frame[t].res

\* C38: every reserve and cancel call terminates with a result under any
\* interleaving of callers: the store lock is only held inside single store
\* methods (never while waiting for another lock), so no deadlock is
\* reachable, and the reschedule and rebooking searches stop after their fixed
\* horizons.  The thread that holds the lock can always run its region; a
\* thread in a call can run whenever the lock is free; and every call that has
\* started returns a result with a status.
C38_CallsTerminate ==
    /\ [](\A t \in Threads :
            /\ lock = t => ENABLED ThreadStep(t)
            /\ (InCall(t) /\ lock = 0) => ENABLED ThreadStep(t))
    /\ \A t \in Threads : InCall(t) ~> Returned(t)

\* a thread in _handle_booking_conflicts waits for the lock while another
\* thread is inside add_appointment
C38_Witness ==
    \E t \in Threads, u \in Threads :
        /\ t # u
        /\ lock = u
        /\ pc[u] = "add"
        /\ pc[t] = "conflicts"

-----------------------------------------------------------------------------
\* the appointment names a doctor of the store, on one of the doctor's days, at
\* one of the doctor's hours
InSchedule(apt) ==
    /\ apt.doctor_id \in DOMAIN Doctors
    /\ \E d \in 1..Len(Doctors[apt.doctor_id].available_days) :
          Doctors[apt.doctor_id].available_days[d] = apt.date
    /\ \E h \in 1..Len(Doctors[apt.doctor_id].available_hours) :
          Doctors[apt.doctor_id].available_hours[h] = apt.time

\* C39: every appointment of the store names an existing doctor, has a date of
\* that doctor's available_days and a time of that doctor's available_hours,
\* whoever chose the doctor, the date and the time: the caller, the
\* auto-completion or the auto-reschedule
C39_AppointmentsInSchedule ==
    \A i \in 1..Len(appointments) : InSchedule(appointments[i])

\* the last call was a reserve that found the requested day full and was moved
\* to another day, and its appointment is in the store
C39_Witness ==
    /\ last.op = "reserve"
    /\ last.res.status = "success"
    /\ last.res.rescheduled
    /\ last.res.appointment.date # last.req.date
    /\ \E i \in 1..Len(appointments) :
          /\ appointments[i].id = last.res.appointment.id
          /\ appointments[i].date = last.res.appointment.date
          /\ appointments[i].time = last.res.appointment.time

-----------------------------------------------------------------------------
\* what the callers of the store share
Shared == <<appointments, appointment_counter>>

\* the step is thread t's add_appointment: t was about to add and has returned
Commits(t) == pc[t] = "add" /\ pc'[t] = "idle"

\* the step is a step of thread t's reserve call: a step of t in a call that
\* has got past its validation, a step of t that ends a call at its completion
\* or validation, or t's taking of the lock in such a call
InReserve(t) ==
    /\ pc'[t] # pc[t] \/ frame'[t] # frame[t] \/ (lock' = t /\ lock # t)
    /\ \/ pc[t] \in {"conflicts", "add"}
       \/ pc[t] = "idle" /\ frame'[t] # frame[t] /\ frame'[t].op = "reserve"

\* C40: a reserve call changes appointments and the counter in one step at
\* most, its add_appointment, which appends one SCHEDULED record, advances the
\* counter by one and leaves every earlier record as it was, after which the
\* call has returned; every other step of the call, and so every call that is
\* rejected or given up before that step, leaves appointments and the counter
\* as they were.
C40_ReserveCommitsOnce ==
    [][\A t \in Threads :
          /\ (InReserve(t) /\ ~Commits(t)) => Shared' = Shared
          /\ (InReserve(t) /\ pc'[t] = "add") => pc[t] \in {"conflicts", "add"}
          /\ (pc[t] = "add" /\ pc'[t] # "add") => Commits(t)
          /\ Commits(t) =>
                /\ Len(appointments') = Len(appointments) + 1
                /\ \A i \in 1..Len(appointments) : appointments'[i] = appointments[i]
                /\ appointments'[Len(appointments')].status = SCHEDULED
                /\ appointments'[Len(appointments')].doctor_id = frame[t].doctor_id
                /\ appointments'[Len(appointments')].patient_id = frame[t].patient_id
                /\ appointment_counter' = appointment_counter + 1
                /\ frame'[t].res.status = "success"
                /\ frame'[t].res.appointment.id = appointments'[Len(appointments')].id]_vars

\* one thread's reserve was rejected and another's was committed: the store
\* holds the one appointment of the second
C40_Witness ==
    \E t, u \in Threads :
       /\ t # u
       /\ pc[t] = "idle" /\ frame[t].op = "reserve"
       /\ frame[t].res.status \notin {"success"}
       /\ pc[u] = "idle" /\ frame[u].op = "reserve"
       /\ frame[u].res.status = "success"
       /\ Len(appointments) = 1
       /\ appointments[1].id = frame[u].res.appointment.id
       /\ appointment_counter = 2

====
